---- MODULE Spec2Model ----
(***************************************************************************)
(* Model of the pm7 document index and ranker                              *)
(* (src/src/services/search-engine.ts): the in-memory index, its snapshot  *)
(* file, and the search, indexProject and clearIndex operations.           *)
(*                                                                         *)
(* Text is a sequence of one-character strings.  Scores are fixed-point    *)
(* integers in units of 1/ScoreScale; the source computes them in IEEE     *)
(* doubles.                                                                *)
(***************************************************************************)
EXTENDS Integers, Sequences, FiniteSets, TLC

(***************************************************************************)
(* Bounds of the model.                                                    *)
(***************************************************************************)
\* Largest number of chunk references the index may hold in total before a
\* search that would grow it further is left out of the model.
MaxStored == 3
\* Longest document, in characters, of the documents enumerated in full.
MaxDocLen == 5
\* Most line breaks in a document made of line breaks only.
MaxNewlines == 95
\* Longest text, in characters, of the texts handed to tokenize in full.
MaxTextLen == 5
\* Longest word of the pairs handed to levenshteinDistance in full.
MaxWordLen == 3

(***************************************************************************)
(* Program constants.                                                      *)
(***************************************************************************)
\* search(projectId, query, limit = 5)
DefaultLimit == 5
\* "Allow 2 edits"
MaxEdits == 2
\* tokens of length <= 2 are dropped (lower.length > 2)
MinTokenLen == 2
\* BM25 parameters k1 = 1.2 (in tenths) and b = 0.75 (in quarters)
K1Tenths == 12
BQuarters == 3
\* score += 2.0 for a query term found in the title
TitleBoost == 2
\* score *= 1.5 for a chunk of the requested project, as a fraction
ProjectBoostNum == 3
ProjectBoostDen == 2
\* Fixed-point unit of scores: a score s of the source is ScoreScale * s here.
ScoreScale == 100 * 100
\* chunkCode: lines per window and lines shared by two windows
CHUNK_SIZE == 50
OVERLAP == 10
\* chunkText: the characters kept
TextCap == 10000

(***************************************************************************)
(* Characters and strings.                                                 *)
(***************************************************************************)
Lower == {"a","b","c","d","e","f","g","h","i","j","k","l","m",
          "n","o","p","q","r","s","t","u","v","w","x","y","z"}
Upper == {"A","B","C","D","E","F","G","H","I","J","K","L","M",
          "N","O","P","Q","R","S","T","U","V","W","X","Y","Z"}
Digit == {"0","1","2","3","4","5","6","7","8","9"}

UpperSeq == <<"A","B","C","D","E","F","G","H","I","J","K","L","M",
              "N","O","P","Q","R","S","T","U","V","W","X","Y","Z">>
LowerSeq == <<"a","b","c","d","e","f","g","h","i","j","k","l","m",
              "n","o","p","q","r","s","t","u","v","w","x","y","z">>

\* String.prototype.toLowerCase on one character.
LowerChar(c) ==
    IF c \in Upper
    THEN LowerSeq[CHOOSE i \in 1..26 : UpperSeq[i] = c]
    ELSE c

\* String.prototype.toLowerCase.
ToLower(s) == [i \in 1..Len(s) |-> LowerChar(s[i])]

IsAlnum(c) == c \in Lower \/ c \in Upper \/ c \in Digit

Min2(a, b) == IF a <= b THEN a ELSE b
Max2(a, b) == IF a >= b THEN a ELSE b

Range(s) == {s[i] : i \in 1..Len(s)}

\* s.includes(t) / s.indexOf(t, from) for sequences of characters.
StartsAt(s, t, i) ==
    /\ i + Len(t) - 1 <= Len(s)
    /\ \A j \in 1..Len(t) : s[i + j - 1] = t[j]

Includes(s, t) == \E i \in 1..(Len(s) - Len(t) + 1) : StartsAt(s, t, i)

\* s.match(new RegExp(t, 'g')).length for a literal t: the occurrences found
\* scanning left to right, each search resuming after the previous match.
RECURSIVE CountFrom(_, _, _)
CountFrom(s, t, i) ==
    IF Len(t) = 0 \/ i + Len(t) - 1 > Len(s) THEN 0
    ELSE IF StartsAt(s, t, i) THEN 1 + CountFrom(s, t, i + Len(t))
    ELSE CountFrom(s, t, i + 1)

CountMatches(s, t) == CountFrom(s, t, 1)

(***************************************************************************)
(* Tokenizer.                                                              *)
(***************************************************************************)
StopWords ==
    { <<"t","h","e">>, <<"i","s">>, <<"a","t">>, <<"o","f">>, <<"o","n">>,
      <<"a","n","d">>, <<"a">>, <<"a","n">>, <<"i","n">>, <<"t","o">>,
      <<"f","o","r">>, <<"w","i","t","h">>, <<"b","y">>,
      <<"a","b","o","u","t">>, <<"a","s">>,
      <<"t","h","i","s">>, <<"t","h","a","t">>, <<"t","h","e","s","e">>,
      <<"t","h","o","s","e">>, <<"a","r","e">>, <<"w","a","s">>,
      <<"w","e","r","e">>, <<"b","e">>, <<"b","e","e","n">>,
      <<"b","e","i","n","g">>,
      <<"h","a","v","e">>, <<"h","a","s">>, <<"h","a","d">>, <<"d","o">>,
      <<"d","o","e","s">>, <<"d","i","d">>, <<"b","u","t">>, <<"i","f">>,
      <<"o","r">>, <<"b","e","c","a","u","s","e">>, <<"u","n","t","i","l">>,
      <<"w","h","i","l","e">>,
      <<"f","u","n","c","t","i","o","n">>, <<"c","l","a","s","s">>,
      <<"c","o","n","s","t">>, <<"v","a","r">>, <<"l","e","t">>,
      <<"r","e","t","u","r","n">>, <<"i","m","p","o","r","t">>,
      <<"e","x","p","o","r","t">>, <<"d","e","f","a","u","l","t">> }

\* A stop-word test that knows no stop word.
isStopWordNever(word) == FALSE

isStopWord(word) == word \in StopWords

\* The part that ends at the current position is pushed when it survives the
\* length and stop-word filter.
PushPart(tokens, part) ==
    LET lower == ToLower(part)
    IN  IF Len(lower) > MinTokenLen /\ ~isStopWord(lower)
        THEN Append(tokens, lower)
        ELSE tokens

\* One left-to-right pass: a run of non-alphanumeric characters ends a raw
\* token, a lowercase letter followed by an uppercase letter ends a part.
RECURSIVE TokenizeFrom(_, _, _, _)
TokenizeFrom(text, i, part, tokens) ==
    IF i > Len(text) THEN PushPart(tokens, part)
    ELSE IF ~IsAlnum(text[i])
         THEN TokenizeFrom(text, i + 1, <<>>, PushPart(tokens, part))
    ELSE IF Len(part) > 0 /\ part[Len(part)] \in Lower /\ text[i] \in Upper
         THEN TokenizeFrom(text, i + 1, <<text[i]>>, PushPart(tokens, part))
    ELSE TokenizeFrom(text, i + 1, Append(part, text[i]), tokens)

tokenize(text) == TokenizeFrom(text, 1, <<>>, <<>>)

(***************************************************************************)
(* Levenshtein distance: the dynamic-programming table, row by row.        *)
(***************************************************************************)
\* A row in which a substitution costs two.
RECURSIVE LevRowSubstitutionTwo(_, _, _, _, _, _)
LevRowSubstitutionTwo(a, b, i, j, prev, row) ==
    IF j > Len(a) THEN row
    ELSE LET cell == IF b[i] = a[j]
                     THEN prev[j]
                     ELSE Min2(prev[j] + 2, Min2(row[j] + 1, prev[j + 1] + 1))
         IN  LevRowSubstitutionTwo(a, b, i, j + 1, prev, Append(row, cell))

\* Row i of the matrix from row i-1 (prev), filled left to right.
RECURSIVE LevRow(_, _, _, _, _, _)
LevRow(a, b, i, j, prev, row) ==
    IF j > Len(a) THEN row
    ELSE LET cell == IF b[i] = a[j]
                     THEN prev[j]
                     ELSE Min2(prev[j] + 1, Min2(row[j] + 1, prev[j + 1] + 1))
         IN  LevRow(a, b, i, j + 1, prev, Append(row, cell))

RECURSIVE LevRows(_, _, _, _)
LevRows(a, b, i, prev) ==
    IF i > Len(b) THEN prev[Len(a) + 1]
    ELSE LevRows(a, b, i + 1, LevRow(a, b, i, 1, prev, <<i>>))

levenshteinDistance(a, b) ==
    IF Len(a) = 0 THEN Len(b)
    ELSE IF Len(b) = 0 THEN Len(a)
    ELSE LevRows(a, b, 1, [j \in 1..(Len(a) + 1) |-> j - 1])

(***************************************************************************)
(* Fixed-point natural logarithm, ScoreScale * ln(num / den) for           *)
(* num >= den > 0: halve the argument into [1, 2), then the series         *)
(* ln x = 2 (z + z^3/3 + z^5/5 + z^7/7), z = (x - 1) / (x + 1).            *)
(***************************************************************************)
Ln2Scaled == (ScoreScale * 6931) \div 10000

LnSeries(num, den) ==
    LET z  == (ScoreScale * (num - den)) \div (num + den)
        z2 == (z * z) \div ScoreScale
        z3 == (z * z2) \div ScoreScale
        z5 == (z3 * z2) \div ScoreScale
        z7 == (z5 * z2) \div ScoreScale
    IN  2 * (z + z3 \div 3 + z5 \div 5 + z7 \div 7)

RECURSIVE LnScaled(_, _)
LnScaled(num, den) ==
    IF num >= 2 * den THEN Ln2Scaled + LnScaled(num, 2 * den)
    ELSE LnSeries(num, den)

(***************************************************************************)
(* Values held by the index and by the snapshot file.                      *)
(*                                                                         *)
(* A chunk is [id, projectId, hasContent, content, title]; hasContent is   *)
(* FALSE for an object read from a snapshot that has no content field.     *)
(* A value of the map is a list of chunks, or something that is not a list *)
(* (isList = FALSE), which only a snapshot can bring in.                   *)
(***************************************************************************)
ListVal(chunks) == [isList |-> TRUE, items |-> chunks]
NotAList == [isList |-> FALSE, items |-> <<>>]

\* Map.prototype.has / get / set / delete on a map kept in insertion order.
Has(idx, p) == \E i \in 1..Len(idx) : idx[i].pid = p
Pos(idx, p) == CHOOSE i \in 1..Len(idx) : idx[i].pid = p
Get(idx, p) == idx[Pos(idx, p)].val

MapSet(idx, p, v) ==
    IF Has(idx, p)
    THEN [idx EXCEPT ![Pos(idx, p)] = [pid |-> p, val |-> v]]
    ELSE Append(idx, [pid |-> p, val |-> v])

RECURSIVE Without(_, _)
Without(idx, p) ==
    IF Len(idx) = 0 THEN <<>>
    ELSE IF Head(idx).pid = p THEN Without(Tail(idx), p)
    ELSE <<Head(idx)>> \o Without(Tail(idx), p)

MapDelete(idx, p) == Without(idx, p)

\* Number of chunk references the map holds.
RECURSIVE Stored(_)
Stored(idx) ==
    IF Len(idx) = 0 THEN 0 ELSE Len(Head(idx).val.items) + Stored(Tail(idx))

(***************************************************************************)
(* The snapshot file.  Its content is missing, text that JSON.parse        *)
(* rejects, or a JSON value: null, a number, an object, or an array whose  *)
(* items are two-element arrays [k, v] (isEntry) or something else.        *)
(***************************************************************************)
Json(t, items) == [t |-> t, items |-> items]
MissingFile == [kind |-> "missing", json |-> Json("null", <<>>)]
GarbageFile == [kind |-> "garbage", json |-> Json("null", <<>>)]
JsonFile(j) == [kind |-> "json", json |-> j]
Pair(k, v) == [isEntry |-> TRUE, k |-> k, v |-> v]
NotAPair == [isEntry |-> FALSE, k |-> "", v |-> NotAList]

\* A serialisation that writes the entry set last instead of every entry.
StringifyLastOnly(idx) ==
    Json("arr", IF Len(idx) = 0 THEN <<>>
                ELSE <<Pair(idx[Len(idx)].pid, idx[Len(idx)].val)>>)

\* JSON.stringify(Array.from(this.index.entries())): one [key, value] pair per
\* entry, in the map's order.
Stringify(idx) ==
    Json("arr", [i \in 1..Len(idx) |-> Pair(idx[i].pid, idx[i].val)])

\* new Map(iterable): null gives the empty map, a number or an object is not
\* iterable, an item that is not an entry object is rejected, a repeated key
\* keeps its first position and its last value.
MapThrows(j) ==
    \/ j.t \in {"num", "obj"}
    \/ j.t = "arr" /\ \E i \in 1..Len(j.items) : ~j.items[i].isEntry

RECURSIVE MapOf(_, _)
MapOf(items, acc) ==
    IF Len(items) = 0 THEN acc
    ELSE MapOf(Tail(items), MapSet(acc, Head(items).k, Head(items).v))

NewMap(j) == IF j.t = "null" THEN <<>> ELSE MapOf(j.items, <<>>)

\* A snapshot in the format saveIndex writes for an index of chunk lists.
WellFormedValue(v) ==
    v.isList /\ \A i \in 1..Len(v.items) : v.items[i].hasContent

WellFormedSnapshot(j) ==
    /\ j.t = "arr"
    /\ \A i \in 1..Len(j.items) :
          j.items[i].isEntry /\ WellFormedValue(j.items[i].v)

FileClass(f) ==
    IF f.kind # "json" THEN f.kind
    ELSE IF WellFormedSnapshot(f.json) THEN "valid" ELSE "malformed"

(***************************************************************************)
(* saveIndex and loadIndex.  w is what the write does: "ok", or a failure  *)
(* that leaves the file as it was ("unchanged") or cut short ("truncated").*)
(***************************************************************************)
WriteOutcomes == {"ok", "unchanged", "truncated"}

WriteFile(f, data, w) ==
    IF w = "ok" THEN JsonFile(data)
    ELSE IF w = "truncated" THEN GarbageFile
    ELSE f

\* saveIndex without its try/catch: the write error reaches the caller.
saveIndexNoCatch(idx, f, w) ==
    [file |-> WriteFile(f, Stringify(idx), w), raised |-> w # "ok"]

\* Lines 35-42: the error of a failed write is caught and logged.
saveIndex(idx, f, w) ==
    [file |-> WriteFile(f, Stringify(idx), w), raised |-> FALSE]

\* loadIndex without its try/catch: the parse error reaches the constructor.
loadIndexNoCatch(f) ==
    IF f.kind = "missing" THEN [index |-> <<>>, raised |-> FALSE]
    ELSE IF f.kind = "garbage" \/ MapThrows(f.json)
         THEN [index |-> <<>>, raised |-> TRUE]
    ELSE [index |-> NewMap(f.json), raised |-> FALSE]

\* Lines 47-58: a missing file is skipped; an error of JSON.parse or of
\* new Map is caught and logged, and the index stays the empty map of line 16.
loadIndex(f) ==
    IF f.kind = "missing" THEN [index |-> <<>>, raised |-> FALSE]
    ELSE IF f.kind = "garbage" \/ MapThrows(f.json)
         THEN [index |-> <<>>, raised |-> FALSE]
    ELSE [index |-> NewMap(f.json), raised |-> FALSE]

(***************************************************************************)
(* indexProject and clearIndex: the new index, the new file, and whether   *)
(* the call raised.                                                        *)
(***************************************************************************)
indexProject(idx, f, p, chunks, w) ==
    LET idx2 == MapSet(idx, p, ListVal(chunks))
        s == saveIndex(idx2, f, w)
    IN  [index |-> idx2, file |-> s.file, raised |-> s.raised]

clearIndex(idx, f, p, w) ==
    LET idx2 == MapDelete(idx, p)
        s == saveIndex(idx2, f, w)
    IN  [index |-> idx2, file |-> s.file, raised |-> s.raised]

(***************************************************************************)
(* search: the candidate list.                                             *)
(***************************************************************************)
\* projectId undefined (or ''): "projectId &&" is false for both.
NoPid == ""

\* allChunks.push(...chunks) for every entry other than pid, in the map's
\* order; spreading a value that is not a list raises, after the pushes made
\* before it.
RECURSIVE PushOthers(_, _, _)
PushOthers(es, pid, acc) ==
    IF Len(es) = 0 THEN [items |-> acc, raised |-> FALSE]
    ELSE IF Head(es).pid = pid THEN PushOthers(Tail(es), pid, acc)
    ELSE IF ~Head(es).val.isList THEN [items |-> acc, raised |-> TRUE]
    ELSE PushOthers(Tail(es), pid, acc \o Head(es).val.items)

\* allChunks.push(...chunks) for every value of the map.
RECURSIVE PushAll(_, _)
PushAll(es, acc) ==
    IF Len(es) = 0 THEN [items |-> acc, raised |-> FALSE]
    ELSE IF ~Head(es).val.isList THEN [items |-> acc, raised |-> TRUE]
    ELSE PushAll(Tail(es), acc \o Head(es).val.items)

\* Lines 135-148 with an unknown project id answered by no candidates at all.
CandidatesUnknownEmpty(idx, pid) ==
    IF pid # NoPid /\ Has(idx, pid)
    THEN LET own == Get(idx, pid)
             r == PushOthers(idx, pid, own.items)
         IN  IF own.isList
             THEN [known |-> TRUE, isArray |-> TRUE, raised |-> r.raised,
                   cands |-> r.items,
                   index |-> MapSet(idx, pid, ListVal(r.items))]
             ELSE [known |-> TRUE, isArray |-> FALSE,
                   raised |-> Len(idx) > 1, cands |-> <<>>, index |-> idx]
    ELSE IF pid # NoPid
    THEN [known |-> FALSE, isArray |-> TRUE, raised |-> FALSE,
          cands |-> <<>>, index |-> idx]
    ELSE LET r == PushAll(idx, <<>>)
         IN  [known |-> FALSE, isArray |-> TRUE, raised |-> r.raised,
              cands |-> r.items, index |-> idx]

\* Lines 135-148.  In the known-project branch allChunks IS the list stored
\* for the project (index.get returns the array itself), so every push onto
\* allChunks is a push onto the stored list.
Candidates(idx, pid) ==
    IF pid # NoPid /\ Has(idx, pid)
    THEN LET own == Get(idx, pid)
             r == PushOthers(idx, pid, own.items)
         IN  IF own.isList
             THEN [known |-> TRUE, isArray |-> TRUE, raised |-> r.raised,
                   cands |-> r.items,
                   index |-> MapSet(idx, pid, ListVal(r.items))]
             ELSE [known |-> TRUE, isArray |-> FALSE,
                   raised |-> Len(idx) > 1, cands |-> <<>>, index |-> idx]
    ELSE LET r == PushAll(idx, <<>>)
         IN  [known |-> FALSE, isArray |-> TRUE, raised |-> r.raised,
              cands |-> r.items, index |-> idx]

(***************************************************************************)
(* The inputs of the model: two projects, the chunks a crawl of each can   *)
(* produce, the queries and the limits.                                    *)
(***************************************************************************)
Projects == {"A", "B"}
UnknownProject == "X"
SearchPids == Projects \cup {UnknownProject, NoPid}

Chunk(id, p, content, title) ==
    [id |-> id, projectId |-> p, hasContent |-> TRUE,
     content |-> content, title |-> title]

\* "oak", no title
ChunkA1 == Chunk("A:doc.md:1", "A", <<"o","a","k">>, <<>>)
\* "elk" (two edits from "oak"), titled "Oak"
ChunkA2 == Chunk("A:doc.md:3", "A", <<"e","l","k">>, <<"O","a","k">>)
\* "oak fir", no title
ChunkB1 == Chunk("B:doc.md:1", "B", <<"o","a","k"," ","f","i","r">>, <<>>)
\* an object of a snapshot that has an id but no content
ChunkNoContent ==
    [id |-> "A:doc.md:1", projectId |-> "A", hasContent |-> FALSE,
     content |-> <<>>, title |-> <<>>]

Pool(p) == IF p = "A" THEN {ChunkA1, ChunkA2} ELSE {ChunkB1}

\* The lists of one chunk.
SingleLists(p) == {<<c>> : c \in Pool(p)}

\* The lists a caller passes for project p: chunks of p with distinct ids.
ChunkLists(p) ==
    {<<>>} \cup {<<c>> : c \in Pool(p)}
           \cup {<<c, d>> : <<c, d>> \in {pr \in Pool(p) \X Pool(p) :
                                              pr[1] # pr[2]}}

\* "oak", "of it" (no term survives the tokenizer), "yew" (matches nothing)
OakQuery == <<"o","a","k">>
StopQuery == <<"o","f"," ","i","t">>
Queries == { OakQuery, StopQuery, <<"y","e","w">> }

Limits == {1, DefaultLimit}

\* Chunks for the ranking: three chunks of A with the content "oak" (one of
\* them under the heading "# Oak", so titled "Oak" - the content is kept to
\* the word so that the three have one length), the leading chunk of a
\* markdown file of A, titled "Introduction", with the content "fir", and a
\* chunk of B with the content "oak".
ChunkOakTitled == Chunk("A:oak.md:3", "A", <<"o","a","k">>, <<"O","a","k">>)
ChunkOakTwin == Chunk("A:two.md:1", "A", <<"o","a","k">>, <<>>)
ChunkIntro ==
    Chunk("A:fir.md:1", "A", <<"f","i","r">>,
          <<"I","n","t","r","o","d","u","c","t","i","o","n">>)
ChunkB2 == Chunk("B:two.md:1", "B", <<"o","a","k">>, <<>>)

RankPool(p) ==
    IF p = "A" THEN {ChunkA1, ChunkOakTitled, ChunkOakTwin, ChunkIntro}
    ELSE {ChunkB2}

RankLists(p) ==
    IF p = "A"
    THEN { <<ChunkA1, ChunkOakTitled>>, <<ChunkOakTwin, ChunkA1>>,
           <<ChunkIntro>>, <<ChunkOakTitled>> }
    ELSE { <<ChunkB2>> }

IntroQuery == <<"i","n","t","r","o","d","u","c","t","i","o","n">>
RankQueries == {OakQuery, IntroQuery}

\* limit: z.number() accepts every number, zero and the negative ones too.
RankLimits == {-1, 0, 1, DefaultLimit}

(***************************************************************************)
(* search: scoring.                                                        *)
(***************************************************************************)
RECURSIVE TotalLength(_)
TotalLength(cands) ==
    IF Len(cands) = 0 THEN 0
    ELSE Len(Head(cands).content) + TotalLength(Tail(cands))

DocCount(cands, term) ==
    Cardinality({i \in 1..Len(cands) :
                    Includes(ToLower(cands[i].content), term)})

\* Math.log(1 + (N - df + 0.5) / (df + 0.5)) = ln((2N + 2) / (2df + 1))
Idf(cands, term) ==
    LnScaled(2 * Len(cands) + 2, 2 * DocCount(cands, term) + 1)

\* A matching that counts the fuzzy tokens beside the exact occurrences.
TermMatchAddFuzzy(chunk, term) ==
    LET exact == CountMatches(ToLower(chunk.content), term)
        toks == tokenize(chunk.content)
        fuzzy == Cardinality({i \in 1..Len(toks) :
                     levenshteinDistance(term, toks[i]) <= MaxEdits})
    IN  IF exact > 0 THEN [freq |-> exact + fuzzy, type |-> "exact"]
        ELSE IF fuzzy > 0 THEN [freq |-> fuzzy, type |-> "fuzzy"]
        ELSE [freq |-> 0, type |-> "none"]

\* Lines 183-206: exact occurrences first, fuzzy tokens only without any.
TermMatch(chunk, term) ==
    LET exact == CountMatches(ToLower(chunk.content), term)
        toks == tokenize(chunk.content)
        fuzzy == Cardinality({i \in 1..Len(toks) :
                     levenshteinDistance(term, toks[i]) <= MaxEdits})
    IN  IF exact > 0 THEN [freq |-> exact, type |-> "exact"]
        ELSE IF fuzzy > 0 THEN [freq |-> fuzzy, type |-> "fuzzy"]
        ELSE [freq |-> 0, type |-> "none"]

\* idf * tf * (k1 + 1) / (tf + k1 * (1 - b + b * dl / (total / n))), numerator
\* and denominator multiplied by 40 * total.
Bm25(idf, tf, dl, total, n) ==
    (idf * tf * (K1Tenths + 10) * 4 * total)
        \div (40 * tf * total
                + K1Tenths * ((4 - BQuarters) * total + BQuarters * dl * n))

\* TermMatch for the chunks and the query terms of the model, evaluated once.
KnownChunks == UNION {Pool(p) \cup RankPool(p) : p \in Projects}
KnownTerms == UNION {Range(tokenize(q)) : q \in Queries \cup RankQueries}
TermMatchMemo == [c \in KnownChunks |-> [t \in KnownTerms |-> TermMatch(c, t)]]

\* tokenize for the queries of the model, evaluated once.
TokenizeMemo == [q \in Queries \cup RankQueries |-> tokenize(q)]
TokensOf(query) ==
    IF query \in Queries \cup RankQueries THEN TokenizeMemo[query] ELSE tokenize(query)

MatchOf(chunk, term) ==
    IF chunk \in KnownChunks /\ term \in KnownTerms
    THEN TermMatchMemo[chunk][term]
    ELSE TermMatch(chunk, term)

\* A scoring that records a detail for every query term, found or not.
RECURSIVE TermScoresListAll(_, _, _, _)
TermScoresListAll(chunk, terms, cands, total) ==
    IF Len(terms) = 0 THEN [score |-> 0, details |-> <<>>]
    ELSE LET term == Head(terms)
             m == MatchOf(chunk, term)
             rest == TermScoresListAll(chunk, Tail(terms), cands, total)
         IN  [score |-> (IF m.freq > 0
                         THEN Bm25(Idf(cands, term), m.freq,
                                   Len(chunk.content), total, Len(cands))
                         ELSE 0) + rest.score,
              details |-> <<[term |-> term, matchType |-> m.type]>>
                          \o rest.details]

\* Lines 180-215: the BM25 sum and the match details of one chunk.
RECURSIVE TermScores(_, _, _, _)
TermScores(chunk, terms, cands, total) ==
    IF Len(terms) = 0 THEN [score |-> 0, details |-> <<>>]
    ELSE LET term == Head(terms)
             m == MatchOf(chunk, term)
             rest == TermScores(chunk, Tail(terms), cands, total)
         IN  IF m.freq > 0
             THEN [score |-> Bm25(Idf(cands, term), m.freq,
                                  Len(chunk.content), total, Len(cands))
                             + rest.score,
                   details |-> <<[term |-> term, matchType |-> m.type]>>
                               \o rest.details]
             ELSE rest

\* A scoring without the title boost of lines 218-224.
NoTitleHits(chunk, terms) == 0

\* Lines 218-224: the query terms the lowercased title includes.
TitleHits(chunk, terms) ==
    Cardinality({i \in 1..Len(terms) : Includes(ToLower(chunk.title), terms[i])})

IsBoosted(chunk, pid) == pid # NoPid /\ chunk.projectId = pid

\* A scoring that multiplies before it adds the title boost.
ScoreChunkBoostFirst(chunk, pid, terms, cands, total) ==
    LET t == TermScores(chunk, terms, cands, total)
        title == TitleBoost * ScoreScale * TitleHits(chunk, terms)
    IN  [chunk |-> chunk,
         score |-> IF IsBoosted(chunk, pid)
                   THEN (t.score * ProjectBoostNum) \div ProjectBoostDen + title
                   ELSE t.score + title,
         matchDetails |-> t.details]

\* Lines 175-232 for one chunk.
ScoreChunk(chunk, pid, terms, cands, total) ==
    LET t == TermScores(chunk, terms, cands, total)
        withTitle == t.score + TitleBoost * ScoreScale * TitleHits(chunk, terms)
    IN  [chunk |-> chunk,
         score |-> IF IsBoosted(chunk, pid)
                   THEN (withTitle * ProjectBoostNum) \div ProjectBoostDen
                   ELSE withTitle,
         matchDetails |-> t.details]

\* A sort that places an item before the items of its own score.
RECURSIVE InsertDescBeforeEqual(_, _)
InsertDescBeforeEqual(sorted, item) ==
    IF Len(sorted) = 0 THEN <<item>>
    ELSE IF Head(sorted).score > item.score
         THEN <<Head(sorted)>> \o InsertDescBeforeEqual(Tail(sorted), item)
    ELSE <<item>> \o sorted

\* Array.prototype.sort with (a, b) => b.score - a.score: stable, descending.
RECURSIVE InsertDesc(_, _)
InsertDesc(sorted, item) ==
    IF Len(sorted) = 0 THEN <<item>>
    ELSE IF Head(sorted).score >= item.score
         THEN <<Head(sorted)>> \o InsertDesc(Tail(sorted), item)
    ELSE <<item>> \o sorted

RECURSIVE SortDesc(_, _)
SortDesc(items, sorted) ==
    IF Len(items) = 0 THEN sorted
    ELSE SortDesc(Tail(items), InsertDesc(sorted, Head(items)))

\* Array.prototype.slice(0, limit): a negative limit counts from the end.
SliceTo(s, limit) ==
    SubSeq(s, 1, IF limit < 0 THEN Max2(Len(s) + limit, 0)
                 ELSE Min2(limit, Len(s)))

Positive(items) == SelectSeq(items, LAMBDA item : item.score > 0)

(***************************************************************************)
(* search: the whole call.  The outcome holds the index after the call,    *)
(* whether the call raised, the branch taken, the candidates, which of     *)
(* them were multiplied by the project boost, and the returned list.       *)
(***************************************************************************)
search(idx, pid, query, limit) ==
    LET c == Candidates(idx, pid)
        terms == TokensOf(query)
        total == TotalLength(c.cands)
        scored == [i \in 1..Len(c.cands) |->
                      ScoreChunk(c.cands[i], pid, terms, c.cands, total)]
        out == [index |-> c.index, raised |-> FALSE, known |-> c.known,
                cands |-> c.cands, boosted |-> <<>>, results |-> <<>>]
    IN  IF c.raised THEN [out EXCEPT !.raised = TRUE]
        ELSE IF c.isArray /\ Len(c.cands) = 0 THEN out
        ELSE IF Len(terms) = 0 THEN out
        ELSE IF ~c.isArray
                \/ \E i \in 1..Len(c.cands) : ~c.cands[i].hasContent
             THEN [out EXCEPT !.raised = TRUE]
        ELSE [out EXCEPT
                 !.boosted = [i \in 1..Len(c.cands) |->
                                 IsBoosted(c.cands[i], pid)],
                 !.results = SliceTo(SortDesc(Positive(scored), <<>>), limit)]

(***************************************************************************)
(* DocumentProcessor: text helpers.                                        *)
(***************************************************************************)
\* \s of the regular expressions, for the characters of the model
IsSpace(c) == c \in {" ", "\t", "\n", "\r", "\f"}

\* a position of s in from..to that holds sep and has as many such positions
\* before it as after it (one more before, of an even number), 0 without any
MidSep(s, sep, from, to) ==
    LET at == {i \in from..to : s[i] = sep}
    IN  IF at = {} THEN 0
        ELSE CHOOSE p \in at :
                 Cardinality({q \in at : q < p}) = Cardinality(at) \div 2

\* String.prototype.split(sep) for a separator of one character, on the
\* characters from..to: the pieces between the separators, empty pieces
\* included; always at least one piece.
RECURSIVE SplitBetween(_, _, _, _)
SplitBetween(s, sep, from, to) ==
    LET p == MidSep(s, sep, from, to)
    IN  IF p = 0 THEN <<SubSeq(s, from, to)>>
        ELSE SplitBetween(s, sep, from, p - 1)
                 \o SplitBetween(s, sep, p + 1, to)

\* A split that keeps no empty piece.
SplitNoEmpty(s, sep) == SelectSeq(SplitBetween(s, sep, 1, Len(s)), LAMBDA piece : piece # <<>>)

Split(s, sep) == SplitBetween(s, sep, 1, Len(s))

\* A join that leaves the separator out.
RECURSIVE JoinNoSep(_, _)
JoinNoSep(parts, sep) ==
    IF Len(parts) = 0 THEN <<>>
    ELSE IF Len(parts) = 1 THEN parts[1]
    ELSE LET half == Len(parts) \div 2
         IN  JoinNoSep(SubSeq(parts, 1, half), sep)
                 \o JoinNoSep(SubSeq(parts, half + 1, Len(parts)), sep)

\* Array.prototype.join(sep): the first half, the separator, the second half
RECURSIVE Join(_, _)
Join(parts, sep) ==
    IF Len(parts) = 0 THEN <<>>
    ELSE IF Len(parts) = 1 THEN parts[1]
    ELSE LET half == Len(parts) \div 2
         IN  Join(SubSeq(parts, 1, half), sep) \o <<sep>>
                 \o Join(SubSeq(parts, half + 1, Len(parts)), sep)

\* String.prototype.trim()
RECURSIVE TrimStart(_)
TrimStart(s) ==
    IF Len(s) > 0 /\ IsSpace(Head(s)) THEN TrimStart(Tail(s)) ELSE s

RECURSIVE TrimEnd(_)
TrimEnd(s) ==
    IF Len(s) > 0 /\ IsSpace(s[Len(s)])
    THEN TrimEnd(SubSeq(s, 1, Len(s) - 1)) ELSE s

Trim(s) == TrimEnd(TrimStart(s))

\* the length of the run of '#' a line begins with
RECURSIVE HashRun(_, _)
HashRun(line, n) ==
    IF n < Len(line) /\ line[n + 1] = "#" THEN HashRun(line, n + 1) ELSE n

(***************************************************************************)
(* DocumentProcessor: the three strategies and the dispatch.               *)
(***************************************************************************)
\* the characters of the project ids of the model
NameChars(projectId) ==
    CASE projectId = "A" -> <<"A">>
      [] projectId = "B" -> <<"B">>
      [] projectId = "A:b" -> <<"A", ":", "b">>

\* the decimal digits of a number, as template literals print it
DigitSeq == <<"0","1","2","3","4","5","6","7","8","9">>

RECURSIVE Digits(_)
Digits(n) ==
    IF n < 10 THEN <<DigitSeq[n + 1]>>
    ELSE Append(Digits(n \div 10), DigitSeq[(n % 10) + 1])

\* `${projectId}:${filePath}:${startLine}`
ChunkId(projectId, filePath, startLine) ==
    NameChars(projectId) \o <<":">> \o filePath \o <<":">>
        \o Digits(startLine)

DocChunk(projectId, filePath, content, hasTitle, title, type, startLine, endLine) ==
    [id |-> ChunkId(projectId, filePath, startLine),
     projectId |-> projectId, filePath |-> filePath,
     hasContent |-> TRUE, content |-> content,
     hasTitle |-> hasTitle, title |-> title, type |-> type,
     startLine |-> startLine, endLine |-> endLine]

\* line.match(/^#{1,3}\s/)
HeadingLevels == 1..3
IsHeading(line) ==
    \E n \in HeadingLevels :
        /\ Len(line) > n
        /\ \A k \in 1..n : line[k] = "#"
        /\ IsSpace(line[n + 1])

\* line.replace(/^#+\s/, '').trim()
HeadingTitle(line) ==
    LET n == HashRun(line, 0)
    IN  IF n > 0 /\ Len(line) > n /\ IsSpace(line[n + 1])
        THEN Trim(SubSeq(line, n + 2, Len(line)))
        ELSE Trim(line)

IntroductionTitle == <<"I","n","t","r","o","d","u","c","t","i","o","n">>

\* The loop of lines 37-62 from the 0-based index i on; endLine of a chunk
\* closed by a heading is that heading's 0-based index.
RECURSIVE MarkdownLoop(_, _, _, _, _, _, _, _)
MarkdownLoop(projectId, filePath, lines, i, chunks, currentChunkLines, currentTitle, startLine) ==
    IF i >= Len(lines)
    THEN [chunks |-> chunks, currentChunkLines |-> currentChunkLines,
          currentTitle |-> currentTitle, startLine |-> startLine]
    ELSE LET line == lines[i + 1]
         IN  IF IsHeading(line)
             THEN MarkdownLoop(projectId, filePath, lines, i + 1,
                      IF Len(currentChunkLines) > 0
                      THEN Append(chunks,
                               DocChunk(projectId, filePath,
                                        Join(currentChunkLines, "\n"), TRUE,
                                        currentTitle, "markdown",
                                        startLine, i))
                      ELSE chunks,
                      <<line>>, HeadingTitle(line), i + 1)
             ELSE MarkdownLoop(projectId, filePath, lines, i + 1, chunks,
                      Append(currentChunkLines, line), currentTitle,
                      startLine)

\* The markdown strategy without the "Add last chunk" step of lines 65-78.
chunkMarkdownNoLast(projectId, filePath, content) ==
    MarkdownLoop(projectId, filePath, Split(content, "\n"), 0, <<>>, <<>>,
                 IntroductionTitle, 1).chunks

chunkMarkdown(projectId, filePath, content) ==
    LET lines == Split(content, "\n")
        l == MarkdownLoop(projectId, filePath, lines, 0, <<>>, <<>>,
                          IntroductionTitle, 1)
    IN  IF Len(l.currentChunkLines) > 0
        THEN Append(l.chunks,
                 DocChunk(projectId, filePath,
                          Join(l.currentChunkLines, "\n"), TRUE,
                          l.currentTitle, "markdown", l.startLine,
                          Len(lines)))
        ELSE l.chunks

\* The loop of lines 92-109 without the break of line 108.
RECURSIVE CodeLoopNoBreak(_, _, _, _, _)
CodeLoopNoBreak(projectId, filePath, lines, i, chunks) ==
    IF i >= Len(lines) THEN chunks
    ELSE LET end == Min2(i + CHUNK_SIZE, Len(lines))
         IN  CodeLoopNoBreak(projectId, filePath, lines,
                 i + (CHUNK_SIZE - OVERLAP),
                 Append(chunks,
                     DocChunk(projectId, filePath,
                              Join(SubSeq(lines, i + 1, end), "\n"),
                              FALSE, <<>>, "code", i + 1, end)))

\* The loop of lines 92-109 from the 0-based index i on.
RECURSIVE CodeLoop(_, _, _, _, _)
CodeLoop(projectId, filePath, lines, i, chunks) ==
    IF i >= Len(lines) THEN chunks
    ELSE LET end == Min2(i + CHUNK_SIZE, Len(lines))
             pushed == Append(chunks,
                           DocChunk(projectId, filePath,
                                    Join(SubSeq(lines, i + 1, end), "\n"),
                                    FALSE, <<>>, "code", i + 1, end))
         IN  IF end = Len(lines) THEN pushed
             ELSE CodeLoop(projectId, filePath, lines,
                           i + (CHUNK_SIZE - OVERLAP), pushed)

chunkCode(projectId, filePath, content) ==
    CodeLoop(projectId, filePath, Split(content, "\n"), 0, <<>>)

\* A text strategy whose endLine counts the lines of the kept characters.
chunkTextKeptLines(projectId, filePath, content) ==
    <<DocChunk(projectId, filePath,
               SubSeq(content, 1, Min2(Len(content), TextCap)), FALSE, <<>>,
               "text", 1,
               Len(Split(SubSeq(content, 1, Min2(Len(content), TextCap)),
                         "\n")))>>

\* content.slice(0, 10000) and content.split('\n').length
chunkText(projectId, filePath, content) ==
    <<DocChunk(projectId, filePath,
               SubSeq(content, 1, Min2(Len(content), TextCap)), FALSE, <<>>,
               "text", 1, Len(Split(content, "\n")))>>

\* filePath.split('.').pop()?.toLowerCase()
Extension(filePath) ==
    LET parts == Split(filePath, ".")
    IN  ToLower(parts[Len(parts)])

MarkdownExtensions == { <<"m","d">>, <<"m","a","r","k","d","o","w","n">> }

CodeExtensions ==
    { <<"t","s">>, <<"j","s">>, <<"p","y">>, <<"j","a","v","a">>,
      <<"g","o">>, <<"r","s">>, <<"c">>, <<"c","p","p">>, <<"h">> }

Strategy(filePath) ==
    IF Extension(filePath) \in MarkdownExtensions THEN "markdown"
    ELSE IF Extension(filePath) \in CodeExtensions THEN "code"
    ELSE "text"

chunkDocument(projectId, filePath, content) ==
    IF Strategy(filePath) = "markdown"
    THEN chunkMarkdown(projectId, filePath, content)
    ELSE IF Strategy(filePath) = "code"
    THEN chunkCode(projectId, filePath, content)
    ELSE chunkText(projectId, filePath, content)

(***************************************************************************)
(* DocumentProcessor: the documents and the paths of the model.            *)
(***************************************************************************)
DocAlphabet == {"#", " ", "a", "\n"}

\* every document over the alphabet up to MaxDocLen characters
SmallDocs == UNION {[1..k -> DocAlphabet] : k \in 0..MaxDocLen}

\* the documents of 1 .. MaxNewlines + 1 empty lines
LineDocs == {[i \in 1..k |-> "\n"] : k \in 0..MaxNewlines}

LongText(len, breaks) ==
    [i \in 1..len |-> IF i \in breaks THEN "\n" ELSE "a"]

\* documents at and past the cap of the text strategy; the last has a line
\* break among the kept characters and one past them
LongDocs ==
    { LongText(TextCap, {}), LongText(TextCap + 1, {}),
      LongText(TextCap + 1, {2, TextCap + 1}) }

\* "", "a", "# a\na", "a\n# a\n## a\na"
SampleDocs ==
    { <<>>, <<"a">>, <<"#"," ","a","\n","a">>,
      <<"a","\n","#"," ","a","\n","#","#"," ","a","\n","a">> }

MdPath == <<"a",".","m","d">>
CodePath == <<"a",".","t","s">>
TextPath == <<"a",".","t","x","t">>
StrategyPaths == {MdPath, CodePath, TextPath}

\* a.MD, a.markdown, a.Py, a.cpp, a.mdx, a, go, md, b.c/a, .h, "a."
DispatchPaths ==
    StrategyPaths \cup
    { <<"a",".","M","D">>, <<"a",".","m","a","r","k","d","o","w","n">>,
      <<"a",".","P","y">>, <<"a",".","c","p","p">>, <<"a",".","m","d","x">>,
      <<"a">>, <<"g","o">>, <<"m","d">>, <<"b",".","c","/","a">>,
      <<".","h">>, <<"a",".">> }

ChunkInputs ==
    (StrategyPaths \X SmallDocs)
        \cup ({CodePath, TextPath} \X LineDocs)
        \cup (DispatchPaths \X SampleDocs)
        \cup ({TextPath, <<"a">>} \X LongDocs)

\* Two documents handed to chunkDocument one after the other: the projects
\* A and A:b, the paths c.md and b:c.md.
IdProjects == {"A", "A:b"}
IdPaths == { <<"c",".","m","d">>, <<"b",":","c",".","m","d">> }
IdDocs == { <<"a">>, <<"#"," ","a","\n","a">> }

(***************************************************************************)
(* The texts, the words and the contents handed to tokenize, to            *)
(* levenshteinDistance and to the term matching.                           *)
(***************************************************************************)
TextAlphabet == {"t", "h", "e", "T", "_"}

ShortTexts == UNION {[1..k -> TextAlphabet] : k \in 0..MaxTextLen}

GitLabCrawlerTest ==
    <<"G","i","t","L","a","b","C","r","a","w","l","e","r","T","e","s","t">>

\* "GitLabCrawlerTest", "the Oak-oak a1B2c3", "fooBar_baz import x9"
SampleTexts ==
    { GitLabCrawlerTest,
      <<"t","h","e"," ","O","a","k","-","o","a","k"," ","a","1","B","2","c","3">>,
      <<"f","o","o","B","a","r","_","b","a","z"," ","i","m","p","o","r","t",
        " ","x","9">> }

Texts == ShortTexts \cup SampleTexts

WordAlphabet == {"a", "b"}

ShortWords == UNION {[1..k -> WordAlphabet] : k \in 0..MaxWordLen}

Color == <<"c","o","l","o","r">>
Colour == <<"c","o","l","o","u","r">>

WordPairs ==
    (ShortWords \X ShortWords)
        \cup { <<Color, Colour>>, <<Colour, Color>>,
               <<<<>>, <<"o","a","k">>>>, <<OakQuery, <<"e","l","k">>>> }

\* "oak", "oakoak", "Oak oat", "oat ork", "soak oat", "elk", "fir", "",
\* "aaaa", "aaaaaa", "aaab aab"
MatchContents ==
    { <<"o","a","k">>, <<"o","a","k","o","a","k">>,
      <<"O","a","k"," ","o","a","t">>, <<"o","a","t"," ","o","r","k">>,
      <<"s","o","a","k"," ","o","a","t">>, <<"e","l","k">>,
      <<"f","i","r">>, <<>>, <<"a","a","a","a">>,
      <<"a","a","a","a","a","a">>, <<"a","a","a","b"," ","a","a","b">> }

MatchTerms == { OakQuery, <<"a","a","a">>, <<"a","b","a">> }

\* The files the first construction may find.
InitialFiles ==
    { MissingFile,
      GarbageFile,
      JsonFile(Json("null", <<>>)),
      JsonFile(Json("num", <<>>)),
      JsonFile(Json("obj", <<>>)),
      JsonFile(Json("arr", <<>>)),
      JsonFile(Json("arr", <<NotAPair>>)),
      JsonFile(Json("arr", <<Pair("A", ListVal(<<ChunkA1>>))>>)),
      JsonFile(Json("arr", <<Pair("A", NotAList)>>)),
      JsonFile(Json("arr", <<Pair("B", ListVal(<<ChunkB1>>)),
                             Pair("A", NotAList)>>)),
      JsonFile(Json("arr", <<Pair("A", ListVal(<<ChunkNoContent>>))>>)) }

(***************************************************************************)
(* State.                                                                  *)
(***************************************************************************)
VARIABLES
    index,        \* SearchEngine.index: sequence of [pid, val], insertion order
    disk,         \* the file .gitlab_index.json
    proc,         \* "up", "stopped" (exited while idle), "crashed" (died
                  \* inside indexProject or clearIndex before saveIndex)
    last,         \* the last call and what it returned
    indexed,      \* per project: the list most recently passed to
                  \* indexProject, unset when never indexed or cleared
                  \* since; followed while clean holds
    saved,        \* the index as the last completed mutation persisted it,
                  \* when its write succeeded
    clean,        \* the first file was no malformed snapshot, no write
                  \* failed and no mutation was cut by a crash
    doc,          \* the document handed to DocumentProcessor.chunkDocument
                  \* and, once the call is done, the chunks it returned
    calc,         \* one call of tokenize, of levenshteinDistance or of the
                  \* term matching of search, and what it returned
    crawl         \* per invocation of GitLabCrawler.crawlProject: where it
                  \* waits, its local variables, and what it has fetched

vars == <<index, disk, proc, last, indexed, saved, clean, doc, calc, crawl>>

NoDoc ==
    [state |-> "none", projectId |-> "", filePath |-> <<>>,
     content |-> <<>>, chunks |-> <<>>, before |-> <<>>]

NoCall ==
    [op |-> "none", pid |-> NoPid, query |-> <<>>, limit |-> 0,
     chunks |-> <<>>, write |-> "ok", raised |-> FALSE, known |-> FALSE,
     cands |-> <<>>, boosted |-> <<>>, results |-> <<>>,
     from |-> "", file |-> ""]

Unset == [set |-> FALSE, chunks |-> <<>>]

NoneIndexed == [p \in Projects |-> Unset]

NotSaved == [ok |-> FALSE, idx |-> <<>>]

IndexedFrom(idx) ==
    [p \in Projects |->
        IF Has(idx, p) /\ Get(idx, p).isList
        THEN [set |-> TRUE, chunks |-> Get(idx, p).items]
        ELSE Unset]

(***************************************************************************)
(* Actions.                                                                *)
(***************************************************************************)
\* Module load: export const searchEngine = new SearchEngine().
Construct(f) ==
    LET l == loadIndex(f)
    IN  /\ disk = f
        /\ index = l.index
        /\ proc = "up"
        /\ last = [NoCall EXCEPT !.op = "start", !.from = "first",
                                 !.file = FileClass(f),
                                 !.raised = l.raised]
        /\ indexed = IF FileClass(f) # "malformed"
                     THEN IndexedFrom(l.index) ELSE NoneIndexed
        /\ saved = NotSaved
        /\ clean = (FileClass(f) # "malformed")

NoCalc ==
    [fn |-> "none", state |-> "none", a |-> <<>>, b |-> <<>>,
     tokens |-> <<>>, distance |-> 0, freq |-> 0, type |-> "none",
     score |-> 0, details |-> <<>>]

Invocations == {1, 2}

IdleCrawl ==
    [pc |-> "idle", project |-> "", metadataOnly |-> FALSE, tree |-> <<>>,
     i |-> 0, chunks |-> <<>>, fetched |-> <<>>, readmes |-> <<>>]

NoCrawl == [c \in Invocations |-> IdleCrawl]

Init ==
    /\ \E f \in InitialFiles : Construct(f)
    /\ doc = NoDoc
    /\ calc = NoCalc
    /\ crawl = NoCrawl

\* indexProject(p, chunks) as a call, whoever makes it.
IndexProjectCall(p, chunks, w) ==
    /\ proc = "up"
    /\ \E r \in {indexProject(index, disk, p, chunks, w)} :
           /\ index' = r.index
           /\ disk' = r.file
           /\ last' = [NoCall EXCEPT !.op = "indexProject", !.pid = p,
                                     !.chunks = chunks, !.write = w,
                                     !.raised = r.raised]
           /\ saved' = IF w = "ok" THEN [ok |-> TRUE, idx |-> r.index]
                       ELSE NotSaved
    /\ indexed' = IF clean /\ w = "ok"
                  THEN [indexed EXCEPT ![p] = [set |-> TRUE, chunks |-> chunks]]
                  ELSE NoneIndexed
    /\ clean' = (clean /\ w = "ok")
    /\ UNCHANGED <<doc, calc, proc>>

IndexProject(p, chunks, w) ==
    /\ IndexProjectCall(p, chunks, w)
    /\ UNCHANGED crawl

ClearIndex(p, w) ==
    /\ proc = "up"
    /\ \E r \in {clearIndex(index, disk, p, w)} :
           /\ index' = r.index
           /\ disk' = r.file
           /\ last' = [NoCall EXCEPT !.op = "clearIndex", !.pid = p,
                                     !.write = w, !.raised = r.raised]
           /\ saved' = IF w = "ok" THEN [ok |-> TRUE, idx |-> r.index]
                       ELSE NotSaved
    /\ indexed' = IF clean /\ w = "ok"
                  THEN [indexed EXCEPT ![p] = Unset]
                  ELSE NoneIndexed
    /\ clean' = (clean /\ w = "ok")
    /\ UNCHANGED <<doc, calc, crawl, proc>>

Search(pid, query, limit) ==
    /\ proc = "up"
    /\ \E r \in {search(index, pid, query, limit)} :
           /\ Stored(r.index) <= MaxStored
           /\ index' = r.index
           /\ last' = [NoCall EXCEPT !.op = "search", !.pid = pid,
                                     !.query = query, !.limit = limit,
                                     !.raised = r.raised, !.known = r.known,
                                     !.cands = r.cands,
                                     !.boosted = r.boosted,
                                     !.results = r.results]
    /\ UNCHANGED <<doc, calc, crawl, disk, proc, indexed, saved, clean>>

\* The process dies inside indexProject after line 27 and before saveIndex.
CrashInIndexProject(p, chunks) ==
    /\ proc = "up"
    /\ index' = MapSet(index, p, ListVal(chunks))
    /\ proc' = "crashed"
    /\ last' = [NoCall EXCEPT !.op = "crash", !.pid = p, !.chunks = chunks]
    /\ indexed' = NoneIndexed
    /\ clean' = FALSE
    /\ UNCHANGED <<doc, calc, crawl, disk, saved>>

\* The process dies inside clearIndex after line 244 and before saveIndex.
CrashInClearIndex(p) ==
    /\ proc = "up"
    /\ index' = MapDelete(index, p)
    /\ proc' = "crashed"
    /\ last' = [NoCall EXCEPT !.op = "crash", !.pid = p]
    /\ indexed' = NoneIndexed
    /\ clean' = FALSE
    /\ UNCHANGED <<doc, calc, crawl, disk, saved>>

\* The process exits between calls.
Stop ==
    /\ proc = "up"
    /\ proc' = "stopped"
    /\ last' = [NoCall EXCEPT !.op = "stop"]
    /\ UNCHANGED <<doc, calc, crawl, index, disk, indexed, saved, clean>>

\* A new process: new SearchEngine() runs loadIndex on the file left behind.
Start ==
    /\ proc \in {"stopped", "crashed"}
    /\ \E l \in {loadIndex(disk)} :
           /\ index' = l.index
           /\ last' = [NoCall EXCEPT !.op = "start", !.from = proc,
                                     !.file = FileClass(disk),
                                     !.raised = l.raised]
    /\ proc' = "up"
    /\ UNCHANGED <<doc, calc, crawl, disk, indexed, saved, clean>>

\* Everything the process and its environment can do.
Next ==
    \/ \E p \in Projects, w \in WriteOutcomes :
          \E chunks \in SingleLists(p) : IndexProject(p, chunks, w)
    \/ \E p \in Projects, w \in WriteOutcomes : ClearIndex(p, w)
    \/ \E pid \in Projects \cup {NoPid}, q \in {OakQuery, StopQuery} :
          Search(pid, q, DefaultLimit)
    \/ \E p \in Projects : \E chunks \in SingleLists(p) :
          CrashInIndexProject(p, chunks)
    \/ \E p \in Projects : CrashInClearIndex(p)
    \/ Stop
    \/ Start

\* Persistence: any first file, failing writes, crashes and restarts.
Spec == Init /\ [][Next]_vars

\* One process on a fresh directory whose writes succeed: the calls
\* indexProject, clearIndex and search with every query and limit.
InitFresh ==
    /\ Init
    /\ disk = MissingFile

NextCalls ==
    \/ \E p \in Projects : \E chunks \in ChunkLists(p) :
          IndexProject(p, chunks, "ok")
    \/ \E p \in Projects : ClearIndex(p, "ok")
    \/ \E pid \in SearchPids, q \in Queries, l \in Limits : Search(pid, q, l)

SpecCalls == InitFresh /\ [][NextCalls]_vars

\* Ranking: one process on a fresh directory whose writes succeed, the
\* chunks of the ranking, every limit the tool can pass.
NextRank ==
    \/ \E p \in Projects : \E chunks \in RankLists(p) :
          IndexProject(p, chunks, "ok")
    \/ \E p \in Projects : ClearIndex(p, "ok")
    \/ \E pid \in SearchPids, q \in RankQueries, l \in RankLimits :
          Search(pid, q, l)

SpecRank == InitFresh /\ [][NextRank]_vars

\* DocumentProcessor.chunkDocument(projectId, filePath, content): a static
\* function of its arguments.
ChunkDocument ==
    /\ doc.state = "pending"
    /\ doc' = [doc EXCEPT
                  !.state = "done",
                  !.chunks = chunkDocument(doc.projectId, doc.filePath,
                                           doc.content)]
    /\ UNCHANGED <<index, disk, proc, last, indexed, saved, clean, calc, crawl>>

\* Chunking: a document of a project is handed to chunkDocument.
InitChunk ==
    /\ Construct(MissingFile)
    /\ calc = NoCalc
    /\ crawl = NoCrawl
    /\ doc \in {[state |-> "pending", projectId |-> p, filePath |-> in[1],
                 content |-> in[2], chunks |-> <<>>, before |-> <<>>] :
                    p \in Projects, in \in ChunkInputs}
              \cup
              {[state |-> "pending", projectId |-> p, filePath |-> f,
                content |-> c, chunks |-> <<>>, before |-> <<>>] :
                    p \in IdProjects, f \in IdPaths, c \in IdDocs}

\* The caller hands over a second document; the chunks of the first are
\* kept beside it.
AnotherDocument(p, f, c) ==
    /\ doc.state = "done"
    /\ doc.before = <<>>
    /\ doc.projectId \in IdProjects
    /\ doc.filePath \in IdPaths
    /\ doc.content \in IdDocs
    /\ doc' = [state |-> "pending", projectId |-> p, filePath |-> f,
               content |-> c, chunks |-> <<>>, before |-> doc.chunks]
    /\ UNCHANGED <<index, disk, proc, last, indexed, saved, clean, calc, crawl>>

NextChunk ==
    \/ ChunkDocument
    \/ \E p \in IdProjects, f \in IdPaths, c \in IdDocs :
          AnotherDocument(p, f, c)

SpecChunk == InitChunk /\ [][NextChunk]_vars

\* tokenize(text)
Tokenize ==
    /\ calc.fn = "tokenize"
    /\ calc.state = "pending"
    /\ calc' = [calc EXCEPT !.state = "done", !.tokens = tokenize(calc.a)]
    /\ UNCHANGED <<index, disk, proc, last, indexed, saved, clean, doc, crawl>>

\* levenshteinDistance(a, b)
Levenshtein ==
    /\ calc.fn = "levenshtein"
    /\ calc.state = "pending"
    /\ calc' = [calc EXCEPT
                   !.state = "done",
                   !.distance = levenshteinDistance(calc.a, calc.b)]
    /\ UNCHANGED <<index, disk, proc, last, indexed, saved, clean, doc, crawl>>

\* Lines 180-215 of search for one chunk, the only candidate, with the
\* content a, and one query term b.
MatchTerm ==
    /\ calc.fn = "match"
    /\ calc.state = "pending"
    /\ LET chunk == Chunk("A:doc.md:1", "A", calc.a, <<>>)
           m == MatchOf(chunk, calc.b)
           t == TermScores(chunk, <<calc.b>>, <<chunk>>, Len(calc.a))
       IN  calc' = [calc EXCEPT !.state = "done", !.freq = m.freq,
                                !.type = m.type, !.score = t.score,
                                !.details = t.details]
    /\ UNCHANGED <<index, disk, proc, last, indexed, saved, clean, doc, crawl>>

\* The text functions of the search engine, each applied to one input.
InitText ==
    /\ Construct(MissingFile)
    /\ doc = NoDoc
    /\ crawl = NoCrawl
    /\ calc \in {[NoCalc EXCEPT !.fn = "tokenize", !.state = "pending",
                                !.a = t] : t \in Texts}
                \cup {[NoCalc EXCEPT !.fn = "levenshtein",
                                     !.state = "pending",
                                     !.a = w[1], !.b = w[2]] : w \in WordPairs}
                \cup {[NoCalc EXCEPT !.fn = "match", !.state = "pending",
                                     !.a = c, !.b = t] :
                         c \in MatchContents, t \in MatchTerms}

NextText == Tokenize \/ Levenshtein \/ MatchTerm

SpecText == InitText /\ [][NextText]_vars

(***************************************************************************)
(* GitLabCrawler.crawlProject.  An invocation runs from one await to the   *)
(* next without interruption; between two awaits of one invocation the     *)
(* other invocations and the searches take their steps.                    *)
(***************************************************************************)
Folder(path, name) == [type |-> "tree", path |-> path, name |-> name]
Blob(path, name) == [type |-> "blob", path |-> path, name |-> name]

AMd == <<"a",".","m","d">>
BMd == <<"b",".","m","d">>
ReadmeMd == <<"R","E","A","D","M","E",".","m","d">>
Docs == <<"d","o","c","s">>
Slash == <<"/">>

\* docs/, docs/a.md, README.md, a.ts
TreeWithReadme ==
    << Folder(Docs, Docs), Blob(Docs \o Slash \o AMd, AMd),
       Blob(ReadmeMd, ReadmeMd), Blob(<<"a",".","t","s">>, <<"a",".","t","s">>) >>

\* dist/b.md, b.markdown, a.md
TreePlain ==
    << Blob(<<"d","i","s","t">> \o Slash \o BMd, BMd),
       Blob(<<"b",".","m","a","r","k","d","o","w","n">>,
            <<"b",".","m","a","r","k","d","o","w","n">>),
       Blob(AMd, AMd) >>

Trees == {TreeWithReadme, TreePlain}

\* "oak" and "# a\noak"
FileContents ==
    { <<"o","a","k">>, <<"#"," ","a","\n","o","a","k">> }

\* String.prototype.lastIndexOf for one character, counted from 1: 0 when
\* the character is not in s
LastIndexOf(s, ch) ==
    LET at == {i \in 1..Len(s) : s[i] = ch}
    IN  IF at = {} THEN 0 ELSE CHOOSE p \in at : \A q \in at : q <= p

excludedDirs ==
    { <<"n","o","d","e","_","m","o","d","u","l","e","s">>,
      <<"d","i","s","t">>, <<"b","u","i","l","d">>, <<".","g","i","t">>,
      <<"c","o","v","e","r","a","g","e">> }

supportedExtensions ==
    { <<".","m","d">>, <<".","m","a","r","k","d","o","w","n">> }

\* filePath.substring(filePath.lastIndexOf('.')): the whole path when it
\* holds no dot (substring(-1) starts at 0)
PathSuffix(filePath) ==
    SubSeq(filePath, Max2(LastIndexOf(filePath, "."), 1), Len(filePath))

shouldProcessFile(filePath) ==
    /\ ~\E dir \in excludedDirs : Includes(filePath, dir \o Slash)
    /\ ToLower(PathSuffix(filePath)) \in supportedExtensions

isReadme(file) == ToLower(file.name) = ToLower(ReadmeMd)

\* The files of the loop whose content is awaited.
IsFetched(file, metadataOnly) ==
    /\ file.type = "blob"
    /\ isReadme(file) \/ (shouldProcessFile(file.path) /\ ~metadataOnly)

\* the first file after the i-th whose content is awaited, 0 without any
NextFetch(tree, i, metadataOnly) ==
    LET js == {j \in (i + 1)..Len(tree) : IsFetched(tree[j], metadataOnly)}
    IN  IF js = {} THEN 0 ELSE CHOOSE j \in js : \A k \in js : j <= k

\* chunks.push(...fileChunks) on an array that all invocations share.
PushChunksShared(cr, c, fileChunks) ==
    [d \in Invocations |-> [cr[d] EXCEPT !.chunks = @ \o fileChunks]]

\* chunks.push(...fileChunks) on the array of the invocation.
PushChunks(cr, c, fileChunks) ==
    [cr EXCEPT ![c].chunks = @ \o fileChunks]

CrawlStep(c) ==
    [NoCall EXCEPT !.op = "crawlProject", !.pid = crawl[c].project]

\* The loop goes on after the i-th file, through the folders and the files
\* that are only registered, to the next await or to indexProject.
Resume(c, cr) ==
    LET j == NextFetch(cr[c].tree, cr[c].i, cr[c].metadataOnly)
    IN  IF j # 0
        THEN /\ crawl' = [cr EXCEPT ![c].pc = "fetch", ![c].i = j]
             /\ last' = CrawlStep(c)
             /\ UNCHANGED <<index, disk, proc, indexed, saved, clean, doc,
                            calc>>
        ELSE /\ crawl' = [cr EXCEPT ![c].pc = "done",
                                    ![c].i = Len(cr[c].tree)]
             /\ IndexProjectCall(cr[c].project, cr[c].chunks, "ok")

\* crawlProject(projectId, metadataOnly) up to the request for the project.
CrawlProject(c, p, metadataOnly) ==
    /\ crawl[c].pc = "idle"
    /\ crawl' = [crawl EXCEPT ![c].pc = "project", ![c].project = p,
                              ![c].metadataOnly = metadataOnly]
    /\ last' = [NoCall EXCEPT !.op = "crawlProject", !.pid = p]
    /\ UNCHANGED <<index, disk, proc, indexed, saved, clean, doc, calc>>

\* The project arrives; the tree is requested.
ProjectResponse(c) ==
    /\ crawl[c].pc = "project"
    /\ crawl' = [crawl EXCEPT ![c].pc = "tree"]
    /\ last' = CrawlStep(c)
    /\ UNCHANGED <<index, disk, proc, indexed, saved, clean, doc, calc>>

\* The request for the project or for the tree fails: crawlProject logs and
\* rethrows.
RequestFails(c) ==
    /\ crawl[c].pc \in {"project", "tree"}
    /\ crawl' = [crawl EXCEPT ![c].pc = "failed"]
    /\ last' = [CrawlStep(c) EXCEPT !.raised = TRUE]
    /\ UNCHANGED <<index, disk, proc, indexed, saved, clean, doc, calc>>

\* The tree arrives: const chunks = [], and the loop starts.
TreeResponse(c, tree) ==
    /\ crawl[c].pc = "tree"
    /\ Resume(c, [crawl EXCEPT ![c].tree = tree, ![c].i = 0,
                               ![c].chunks = <<>>])

\* The content of the i-th file arrives.  A README is kept for the resource
\* only; any other file is chunked, its chunks are pushed, and the
\* invocation waits 100 ms.
FileResponse(c, content) ==
    /\ crawl[c].pc = "fetch"
    /\ LET file == crawl[c].tree[crawl[c].i]
           got == [path |-> file.path, content |-> content]
       IN  IF isReadme(file)
           THEN Resume(c, [crawl EXCEPT ![c].readmes = Append(@, got)])
           ELSE /\ crawl' =
                      [PushChunks(crawl, c,
                                  chunkDocument(crawl[c].project, file.path,
                                                content))
                          EXCEPT ![c].pc = "sleep",
                                 ![c].fetched = Append(@, got)]
                /\ last' = CrawlStep(c)
                /\ UNCHANGED <<index, disk, proc, indexed, saved, clean,
                               doc, calc>>

\* The content of the i-th file does not arrive: logged, the loop goes on.
FileFails(c) ==
    /\ crawl[c].pc = "fetch"
    /\ Resume(c, crawl)

\* The 100 ms are over.
TimerFires(c) ==
    /\ crawl[c].pc = "sleep"
    /\ Resume(c, crawl)

InitCrawl ==
    /\ Construct(MissingFile)
    /\ doc = NoDoc
    /\ calc = NoCalc
    /\ crawl = NoCrawl

\* Two crawlProject invocations, and searches of the tool between their
\* steps.
NextCrawl ==
    \/ \E c \in Invocations, p \in Projects, m \in BOOLEAN :
          CrawlProject(c, p, m)
    \/ \E c \in Invocations : ProjectResponse(c)
    \/ \E c \in Invocations : RequestFails(c)
    \/ \E c \in Invocations, tree \in Trees : TreeResponse(c, tree)
    \/ \E c \in Invocations, content \in FileContents :
          FileResponse(c, content)
    \/ \E c \in Invocations : FileFails(c)
    \/ \E c \in Invocations : TimerFires(c)
    \/ \E pid \in {NoPid, "A"} : Search(pid, OakQuery, DefaultLimit)

SpecCrawl == InitCrawl /\ [][NextCrawl]_vars

(***************************************************************************)
(* Properties.                                                             *)
(***************************************************************************)
Count(seq, x) == Cardinality({i \in 1..Len(seq) : seq[i] = x})

ReturnedChunks(results) == {results[i].chunk : i \in 1..Len(results)}

IsSearch(call) == call.op = "search"

\* The call named an id that is not a key of the index.
IsUnknownSearch(call) == IsSearch(call) /\ call.pid # NoPid /\ ~call.known

\* C1: search is read-only: a step that is a search call leaves the mapping
\* from collection id to chunk list as it was (same keys, same lists).
C1_SearchReadOnly == [][IsSearch(last') => index' = index]_vars

\* C2: re-indexing fully replaces: every chunk a search returns whose
\* collection C is currently indexed is a member of the list most recently
\* passed to indexProject(C, ...).
C2_ReindexReplaces ==
    IsSearch(last) =>
        \A c \in ReturnedChunks(last.results) :
            indexed[c.projectId].set =>
                c \in Range(indexed[c.projectId].chunks)

\* C3: clearing removes a collection from search-all: a search called without
\* a collection id returns no chunk of a collection that was cleared and not
\* indexed again.
C3_ClearRemoves ==
    (IsSearch(last) /\ last.pid = NoPid) =>
        \A c \in ReturnedChunks(last.results) : indexed[c.projectId].set

\* C4: snapshot restore: when every write succeeded, a newly constructed
\* engine maps each collection to exactly the list most recently passed to
\* indexProject for it and has no entry for a collection cleared since.
C4_SnapshotRestore ==
    (last.op = "start" /\ last.from = "stopped" /\ clean) =>
        \A p \in Projects :
            IF indexed[p].set
            THEN Has(index, p) /\ Get(index, p) = ListVal(indexed[p].chunks)
            ELSE ~Has(index, p)

\* C5: a missing snapshot file, or one that is not parseable JSON, never makes
\* the construction raise; the index starts empty, and the call that follows
\* behaves as on a fresh empty index: indexProject leaves the one collection,
\* clearIndex leaves the index empty, search has no candidates and returns
\* the empty sequence, and none of them raises.
StartedWithoutSnapshot(call) ==
    call.op = "start" /\ call.file \in {"missing", "garbage"}

C5_StartsEmpty ==
    StartedWithoutSnapshot(last) => (~last.raised /\ index = <<>>)

C5_FirstCallOnEmpty ==
    (StartedWithoutSnapshot(last) /\ proc' = "up") =>
        /\ ~last'.raised
        /\ last'.op = "indexProject" =>
              index' = <<[pid |-> last'.pid, val |-> ListVal(last'.chunks)]>>
        /\ last'.op = "clearIndex" => index' = <<>>
        /\ IsSearch(last') =>
              index' = <<>> /\ last'.cands = <<>> /\ last'.results = <<>>

C5_MissingOrCorruptStartsEmpty ==
    []C5_StartsEmpty /\ [][C5_FirstCallOnEmpty]_vars

\* A restart that finds the file cut short by a failed write.
C5_Witness ==
    last.op = "start" /\ last.from = "stopped" /\ last.file = "garbage"

\* C6: a snapshot that parses as JSON but is not a list of [collectionId,
\* chunk list] pairs of well-formed chunks loads as the empty index, and no
\* search raises afterwards.
C6_MalformedStartsEmpty ==
    /\ (last.op = "start" /\ last.file = "malformed") => index = <<>>
    /\ IsSearch(last) => ~last.raised

\* C7: a failing snapshot write is downgraded to a no-op: the call does not
\* raise, the in-memory index holds the mutation (the collection is replaced
\* or removed), and a search that follows and returns has worked on the
\* mutated index: the list just indexed is among its candidates, and a search
\* naming the collection just cleared finds it unknown.
C7_FailedWrite ==
    /\ (last.op = "indexProject" /\ last.write # "ok") =>
          /\ ~last.raised
          /\ Has(index, last.pid)
          /\ Get(index, last.pid) = ListVal(last.chunks)
    /\ (last.op = "clearIndex" /\ last.write # "ok") =>
          /\ ~last.raised
          /\ ~Has(index, last.pid)

C7_SearchAfterFailedWrite ==
    (last.write # "ok" /\ IsSearch(last') /\ ~last'.raised) =>
        /\ last.op = "indexProject" =>
              Range(last.chunks) \subseteq Range(last'.cands)
        /\ (last.op = "clearIndex" /\ last'.pid = last.pid) => ~last'.known

C7_WriteFailureIsNoOp == []C7_FailedWrite /\ [][C7_SearchAfterFailedWrite]_vars

\* A collection replaced in memory while the file still holds the old list.
C7_Witness ==
    /\ last.op = "indexProject" /\ last.write = "unchanged"
    /\ disk.kind = "json"
    /\ \E i \in 1..Len(disk.json.items) :
          /\ disk.json.items[i].k = last.pid
          /\ disk.json.items[i].v # ListVal(last.chunks)

\* C8: a crash between the mutation and the snapshot write loses only that
\* update: the restart restores exactly the index the previous completed
\* mutation persisted.
C8_CrashLosesOnlyLastUpdate ==
    (last.op = "start" /\ last.from = "crashed" /\ saved.ok) =>
        (~last.raised /\ index = saved.idx)

\* A restart after a crash that restores two collections.
C8_Witness ==
    /\ last.op = "start" /\ last.from = "crashed" /\ saved.ok
    /\ Len(index) = 2

C10_AllCandidatesOnce ==
    (IsSearch(last) /\ ~last.known /\ ~last.raised) =>
        /\ \A c \in KnownChunks :
              Count(last.cands, c) =
                  IF indexed[c.projectId].set
                  THEN Count(indexed[c.projectId].chunks, c)
                  ELSE 0
        /\ \A i \in 1..Len(last.boosted) : ~last.boosted[i]

\* C11: a search that takes no chunk as a candidate, or whose query leaves no
\* term after tokenization, returns the empty sequence and does not raise,
\* whatever the collection id and the limit.
NoTerms(call) == TokensOf(call.query) = <<>>

C11_EmptyWithoutRaising ==
    (IsSearch(last) /\ (last.cands = <<>> \/ NoTerms(last))) =>
        (~last.raised /\ last.results = <<>>)

\* The position in the candidate list of the result at place i: the n-th
\* result that holds a chunk is the n-th candidate that holds it.
OccurrenceNo(results, i) ==
    Cardinality({j \in 1..i : results[j].chunk = results[i].chunk})

NthPos(cands, chunk, n) ==
    CHOOSE p \in 1..Len(cands) :
        /\ cands[p] = chunk
        /\ Cardinality({q \in 1..p : cands[q] = chunk}) = n

CandidatePos(call, i) ==
    NthPos(call.cands, call.results[i].chunk, OccurrenceNo(call.results, i))

\* C12: every returned item has a score above zero, the scores never
\* increase along the result, and of two items with one score the one met
\* first in the candidate list (the targeted collection's chunks, then the
\* others in the order of the index) comes first.
C12_ResultOrdering ==
    IsSearch(last) =>
        \A i \in 1..Len(last.results) :
            /\ last.results[i].score > 0
            /\ Count(last.cands, last.results[i].chunk)
                  >= OccurrenceNo(last.results, i)
            /\ \A j \in (i + 1)..Len(last.results) :
                  \/ last.results[i].score > last.results[j].score
                  \/ /\ last.results[i].score = last.results[j].score
                     /\ CandidatePos(last, i) < CandidatePos(last, j)

\* A search without boost that returns, with one score, a chunk of B before
\* a chunk of A: B was indexed before A.
C12_Witness ==
    /\ IsSearch(last)
    /\ \E i \in 1..Len(last.results) : \E j \in (i + 1)..Len(last.results) :
          /\ last.results[i].score = last.results[j].score
          /\ last.results[i].chunk = ChunkB2
          /\ last.results[j].chunk.projectId = "A"

\* C13: a search never returns more items than its limit, for every limit
\* the tool can pass, zero and the negative ones included (no item at all
\* for a limit below zero), and what it returns are the first items, up to
\* the limit, of the ranking of the candidates that score above zero.
Ranking(call) ==
    LET terms == TokensOf(call.query)
        total == TotalLength(call.cands)
    IN  SortDesc(Positive([i \in 1..Len(call.cands) |->
                    ScoreChunk(call.cands[i], call.pid, terms,
                               call.cands, total)]), <<>>)

C13_AtMostLimit ==
    (IsSearch(last) /\ ~last.raised) =>
        /\ Len(last.results) <= Max2(last.limit, 0)
        /\ last.results =
              SubSeq(Ranking(last), 1,
                     Min2(Max2(last.limit, 0), Len(Ranking(last))))

\* Two candidates of the targeted collection with one content, the first
\* with a query term in its title, the second without.
TitleContainsTerm(chunk, query) ==
    \E i \in 1..Len(TokensOf(query)) :
        Includes(ToLower(chunk.title), TokensOf(query)[i])

TitlePair(call, c, d) ==
    /\ c.projectId = call.pid
    /\ d.projectId = call.pid
    /\ c.content = d.content
    /\ TitleContainsTerm(c, call.query)
    /\ ~TitleContainsTerm(d, call.query)

FirstPlace(results, chunk) ==
    CHOOSE i \in 1..Len(results) :
        /\ results[i].chunk = chunk
        /\ \A j \in 1..(i - 1) : results[j].chunk # chunk

\* C14: in a search with the id of an indexed collection, a chunk of that
\* collection whose title contains a query term ranks strictly above a chunk
\* of it with the same content whose title contains none: wherever the second
\* is returned, the first is returned before it with a higher score.
C14_TitleRanksHigher ==
    (IsSearch(last) /\ last.known /\ ~last.raised) =>
        \A c \in Range(last.cands) : \A d \in Range(last.cands) :
            (TitlePair(last, c, d) /\ d \in ReturnedChunks(last.results)) =>
                /\ c \in ReturnedChunks(last.results)
                /\ FirstPlace(last.results, c) < FirstPlace(last.results, d)
                /\ last.results[FirstPlace(last.results, c)].score
                      > last.results[FirstPlace(last.results, d)].score

\* The untitled chunk was indexed first, and both are returned.
C14_Witness ==
    /\ IsSearch(last)
    /\ last.known
    /\ last.cands = <<ChunkA1, ChunkOakTitled>>
    /\ Len(last.results) = 2
    /\ last.results[1].chunk = ChunkOakTitled
    /\ last.results[2].chunk = ChunkA1

\* C15: every item a search returns has a matchDetails that is not empty.
C15_DetailsNonEmpty ==
    IsSearch(last) =>
        \A i \in 1..Len(last.results) : last.results[i].matchDetails # <<>>

\* The query terms found in the content of a chunk, exactly or within two
\* edits, in the order of the query.
ContentTerms(chunk, query) ==
    SelectSeq(TokensOf(query), LAMBDA t : MatchOf(chunk, t).freq > 0)

\* C15 amended: every returned item scores above zero, and its matchDetails
\* lists, in query order, exactly the query terms found in its content
\* (exactly or within two edits); it is empty exactly when no term is found
\* in the content, and such an item is returned because its title contains
\* a query term.
C15_DetailsListContentTerms ==
    IsSearch(last) =>
        \A i \in 1..Len(last.results) :
            LET r == last.results[i]
            IN  /\ r.score > 0
                /\ [j \in 1..Len(r.matchDetails) |-> r.matchDetails[j].term]
                      = ContentTerms(r.chunk, last.query)
                /\ r.matchDetails = <<>> =>
                      TitleContainsTerm(r.chunk, last.query)

\* The leading chunk of fir.md, titled "Introduction", returned for the
\* query "introduction" with no matchDetails.
C15_Witness ==
    /\ IsSearch(last)
    /\ \E i \in 1..Len(last.results) :
          /\ last.results[i].chunk = ChunkIntro
          /\ last.results[i].matchDetails = <<>>

IsChunked == doc.state = "done"

\* the lines of the document handed to chunkDocument
DocLines == Split(doc.content, "\n")

\* the number of lines of the document: one more than its line breaks
LineCount == Cardinality({i \in 1..Len(doc.content) : doc.content[i] = "\n"}) + 1

\* the 1-based numbers of the lines that are level-1-to-3 headings
HeadingLinesOf(lines) == {n \in 1..Len(lines) : IsHeading(lines[n])}

HeadingLineNos == HeadingLinesOf(DocLines)

IsMarkdownDoc == IsChunked /\ Strategy(doc.filePath) = "markdown"
IsCodeDoc == IsChunked /\ Strategy(doc.filePath) = "code"
IsTextDoc == IsChunked /\ Strategy(doc.filePath) = "text"

\* C16: a markdown document yields one chunk per heading line, and one more
\* when a line precedes the first heading (or there is no heading); a
\* heading's chunk starts at the line of its heading and is titled by the
\* heading text, the leading chunk starts at line 1 and is titled
\* "Introduction"; without any heading the one chunk spans lines 1..N and
\* holds the whole document.
C16_MarkdownChunks ==
    IsMarkdownDoc =>
        LET lines == DocLines
            heads == HeadingLinesOf(lines)
        IN  /\ Len(doc.chunks) = Cardinality(heads)
                                    + (IF 1 \in heads THEN 0 ELSE 1)
            /\ {doc.chunks[k].startLine : k \in 1..Len(doc.chunks)}
                  = heads \cup {1}
            /\ \A k \in 1..Len(doc.chunks) :
                  LET c == doc.chunks[k]
                  IN  /\ c.hasTitle
                      /\ c.title = IF c.startLine \in heads
                                   THEN HeadingTitle(lines[c.startLine])
                                   ELSE IntroductionTitle
            /\ heads = {} =>
                  /\ Len(doc.chunks) = 1
                  /\ doc.chunks[1].startLine = 1
                  /\ doc.chunks[1].endLine = LineCount
                  /\ doc.chunks[1].content = doc.content

\* "a\n# a\n## a\na": a leading chunk and one chunk for each heading.
C16_Witness ==
    /\ IsMarkdownDoc
    /\ Len(doc.chunks) = 3
    /\ Cardinality(HeadingLineNos) = 2
    /\ doc.chunks[1].title = IntroductionTitle
    /\ doc.chunks[3].startLine = 3

\* C17: the k-th window (k = 0, 1, ...) of a code document of N lines starts
\* at line 40k + 1 and ends at line min(40k + 50, N); the windows stop at the
\* first that ends at line N, so the last ends at N and none starts beyond N
\* or is empty.
C17_CodeWindows ==
    IsCodeDoc =>
        /\ Len(doc.chunks) >= 1
        /\ \A k \in 1..Len(doc.chunks) :
              LET c == doc.chunks[k]
              IN  /\ c.type = "code"
                  /\ c.startLine = 40 * (k - 1) + 1
                  /\ c.endLine = Min2(40 * (k - 1) + 50, LineCount)
                  /\ c.startLine <= c.endLine
                  /\ c.startLine <= LineCount
                  /\ (c.endLine = LineCount) <=> (k = Len(doc.chunks))

\* A code document of more than 90 lines: three windows.
C17_Witness ==
    /\ IsCodeDoc
    /\ Len(doc.chunks) = 3
    /\ doc.chunks[3].startLine = 81
    /\ doc.chunks[3].endLine = LineCount

\* C18: the text strategy yields exactly one chunk, of kind text, starting at
\* line 1, whose content is the first min(len, 10000) characters of the
\* document; past 10,000 characters the content is exactly 10,000 long while
\* endLine is the line count of the whole document.
C18_TextChunk ==
    IsTextDoc =>
        /\ Len(doc.chunks) = 1
        /\ doc.chunks[1].type = "text"
        /\ doc.chunks[1].startLine = 1
        /\ doc.chunks[1].content
              = SubSeq(doc.content, 1, Min2(Len(doc.content), 10000))
        /\ Len(doc.content) > 10000 => Len(doc.chunks[1].content) = 10000
        /\ doc.chunks[1].endLine = LineCount

\* A document of 10,001 characters whose last character is a line break:
\* three lines, two of them begun among the kept characters.
C18_Witness ==
    /\ IsTextDoc
    /\ Len(doc.content) > 10000
    /\ Len(doc.chunks[1].content) = 10000
    /\ doc.chunks[1].endLine = 3
    /\ Cardinality({i \in 1..10000 : doc.chunks[1].content[i] = "\n"}) = 1

\* The extension of a path: what follows its last '.', lowercased; a path
\* without '.' has none.
HasDot(path) == \E i \in 1..Len(path) : path[i] = "."

LastDot(path) ==
    CHOOSE i \in 1..Len(path) :
        path[i] = "." /\ \A j \in (i + 1)..Len(path) : path[j] # "."

ExpectedStrategy(path) ==
    IF ~HasDot(path) THEN "text"
    ELSE LET ext == ToLower(SubSeq(path, LastDot(path) + 1, Len(path)))
         IN  IF ext \in { <<"m","d">>, <<"m","a","r","k","d","o","w","n">> }
             THEN "markdown"
             ELSE IF ext \in CodeExtensions THEN "code"
             ELSE "text"

\* C19: chunkDocument uses the markdown strategy exactly for the extensions
\* md and markdown, the code strategy exactly for the extensions of the
\* allow-list, the text strategy for everything else, comparing without
\* regard to case; a path without '.' is chunked by the text strategy.
C19_DispatchByExtension ==
    IsChunked =>
        \A k \in 1..Len(doc.chunks) :
            doc.chunks[k].type = ExpectedStrategy(doc.filePath)

\* C20: chunkDocument returns at least one chunk, every chunk has
\* 1 <= startLine <= endLine <= the line count of the document (one more
\* than its line breaks), and the startLines never decrease along the
\* result; the empty document and documents with and without a final line
\* break included.
C20_WellFormed ==
    IsChunked =>
        /\ Len(doc.chunks) >= 1
        /\ \A k \in 1..Len(doc.chunks) :
              /\ 1 <= doc.chunks[k].startLine
              /\ doc.chunks[k].startLine <= doc.chunks[k].endLine
              /\ doc.chunks[k].endLine <= LineCount
              /\ k > 1 => doc.chunks[k - 1].startLine <= doc.chunks[k].startLine

\* The empty document chunked by the markdown strategy.
C20_Witness ==
    /\ IsMarkdownDoc
    /\ doc.content = <<>>
    /\ Len(doc.chunks) = 1
    /\ doc.chunks[1].startLine = 1
    /\ doc.chunks[1].endLine = 1

\* C21: two chunks that chunkDocument produced, in one call or in two calls
\* for any projects and paths, have the same id only if they have the same
\* project id, the same path and the same startLine.
SameOrigin(x, y) ==
    /\ x.projectId = y.projectId
    /\ x.filePath = y.filePath
    /\ x.startLine = y.startLine

C21_IdsInjective ==
    IsChunked =>
        LET all == doc.before \o doc.chunks
        IN  \A i \in 1..Len(all) : \A j \in 1..Len(all) :
                all[i].id = all[j].id => SameOrigin(all[i], all[j])

Done(fn) == calc.fn = fn /\ calc.state = "done"

\* the largest number of occurrences of t in s no two of which overlap
MaxDisjoint(s, t) ==
    LET at == {i \in 1..Len(s) : StartsAt(s, t, i)}
        apart == {S \in SUBSET at :
                     \A i \in S : \A j \in S : i < j => j - i >= Len(t)}
    IN  CHOOSE n \in 0..Len(s) :
            /\ \E S \in apart : Cardinality(S) = n
            /\ \A S \in apart : Cardinality(S) <= n

\* C22: when the term occurs in the lowercased content, its frequency is the
\* number of occurrences that do not overlap and the detail says exact,
\* whatever tokens are near the term; only without any occurrence is the
\* frequency the number of content tokens within two edits of the term, the
\* detail saying fuzzy; a term of frequency 0 adds no score and no detail.
C22_ExactBeforeFuzzy ==
    Done("match") =>
        LET lower == ToLower(calc.a)
            toks == tokenize(calc.a)
            near == Cardinality({i \in 1..Len(toks) :
                        levenshteinDistance(calc.b, toks[i]) <= 2})
        IN  /\ Includes(lower, calc.b) =>
                  /\ calc.freq = MaxDisjoint(lower, calc.b)
                  /\ calc.type = "exact"
            /\ ~Includes(lower, calc.b) =>
                  /\ calc.freq = near
                  /\ calc.type = IF near > 0 THEN "fuzzy" ELSE "none"
            /\ calc.freq = 0 => (calc.score = 0 /\ calc.details = <<>>)
            /\ calc.freq > 0 =>
                  /\ calc.score > 0
                  /\ calc.details =
                        <<[term |-> calc.b, matchType |-> calc.type]>>

\* "soak oat" and the term "oak": one exact occurrence, and two tokens
\* within two edits that are not counted.
C22_Witness ==
    /\ Done("match")
    /\ calc.a = <<"s","o","a","k"," ","o","a","t">>
    /\ calc.b = OakQuery
    /\ calc.freq = 1
    /\ calc.type = "exact"

\* the sum of the BM25 contributions of the query terms and of 2.0 for every
\* query term the title contains, in the unit of the scores
Accumulated(call, chunk) ==
    LET terms == TokensOf(call.query)
        inTitle == {i \in 1..Len(terms) :
                       Includes(ToLower(chunk.title), terms[i])}
    IN  TermScores(chunk, terms, call.cands, TotalLength(call.cands)).score
            + 2 * ScoreScale * Cardinality(inTitle)

\* C23: in a search with the id of an indexed collection, the score of a
\* returned chunk of that collection is one and a half times the sum of its
\* BM25 contributions and of 2.0 per query term in its title, and the score
\* of a returned chunk of another collection is that sum itself.
C23_BoostIsFinalMultiplier ==
    (IsSearch(last) /\ last.known /\ ~last.raised) =>
        \A i \in 1..Len(last.results) :
            LET r == last.results[i]
                sum == Accumulated(last, r.chunk)
            IN  r.score = IF r.chunk.projectId = last.pid
                          THEN (3 * sum) \div 2
                          ELSE sum

\* A search in A that returns a chunk of A with the query term in its title
\* and in its content, and a chunk of B.
C23_Witness ==
    /\ IsSearch(last)
    /\ last.known
    /\ last.pid = "A"
    /\ Len(last.results) = 2
    /\ last.results[1].chunk = ChunkOakTitled
    /\ last.results[1].score > 3 * ScoreScale
    /\ last.results[2].chunk = ChunkB2

\* There is a split between the characters k and k + 1 of the text: at its
\* ends, beside a character that is no letter and no digit, and between a
\* lowercase letter and the uppercase letter after it.
SplitAfter(text, k) ==
    \/ k = 0
    \/ k = Len(text)
    \/ ~IsAlnum(text[k])
    \/ ~IsAlnum(text[k + 1])
    \/ (text[k] \in Lower /\ text[k + 1] \in Upper)

\* the fragment that starts at i ends at the first split at or after i
FragmentEnd(text, i) ==
    CHOOSE j \in i..Len(text) :
        /\ SplitAfter(text, j)
        /\ \A k \in i..(j - 1) : ~SplitAfter(text, k)

\* the positions at which a fragment starts
FragmentStarts(text) ==
    {i \in 1..Len(text) : IsAlnum(text[i]) /\ SplitAfter(text, i - 1)}

\* The lowercased fragments that start at or after position i, in the order
\* of the text, without the short ones and the stop words.
RECURSIVE FragmentsFrom(_, _)
FragmentsFrom(text, i) ==
    IF i > Len(text) THEN <<>>
    ELSE IF i \notin FragmentStarts(text) THEN FragmentsFrom(text, i + 1)
    ELSE LET j == FragmentEnd(text, i)
             w == ToLower(SubSeq(text, i, j))
         IN  (IF Len(w) <= 2 \/ w \in StopWords THEN <<>> ELSE <<w>>)
                 \o FragmentsFrom(text, j + 1)

\* C24: tokenize returns, in the order of the text and with duplicates, the
\* lowercased fragments left by splitting at the runs of characters that are
\* no letters and no digits and between a lowercase letter and the uppercase
\* letter after it, without those of length 2 or less and the stop words;
\* a token holds lowercase letters and digits only, is at least 3 long and
\* is no stop word; "GitLabCrawlerTest" gives git, lab, crawler, test.
C24_Tokenizer ==
    Done("tokenize") =>
        /\ calc.tokens = FragmentsFrom(calc.a, 1)
        /\ \A i \in 1..Len(calc.tokens) :
              /\ Len(calc.tokens[i]) >= 3
              /\ calc.tokens[i] \notin StopWords
              /\ \A k \in 1..Len(calc.tokens[i]) :
                    calc.tokens[i][k] \in Lower \cup Digit
        /\ calc.a = GitLabCrawlerTest =>
              calc.tokens = << <<"g","i","t">>, <<"l","a","b">>,
                               <<"c","r","a","w","l","e","r">>,
                               <<"t","e","s","t">> >>

\* "the Oak-oak a1B2c3": a stop word is dropped, a word is kept twice, and a
\* word with digits is split at its lowercase-uppercase boundary only.
C24_Witness ==
    /\ Done("tokenize")
    /\ calc.a = <<"t","h","e"," ","O","a","k","-","o","a","k"," ",
                  "a","1","B","2","c","3">>
    /\ calc.tokens = << OakQuery, OakQuery, <<"a","1","b","2","c","3">> >>

\* The least number of insertions, deletions and substitutions of one
\* character that turn a into b, by cases on the first characters.
RECURSIVE EditDistance(_, _)
EditDistance(a, b) ==
    IF Len(a) = 0 THEN Len(b)
    ELSE IF Len(b) = 0 THEN Len(a)
    ELSE IF Head(a) = Head(b) THEN EditDistance(Tail(a), Tail(b))
    ELSE 1 + Min2(EditDistance(Tail(a), Tail(b)),
                  Min2(EditDistance(Tail(a), b), EditDistance(a, Tail(b))))

\* C25: levenshteinDistance(a, b) is the edit distance of a and b, is the
\* same for (b, a), is 0 exactly when a = b, and is the length of the other
\* string when one of the two is empty; the distance of "color" and
\* "colour" is 1.
C25_Levenshtein ==
    Done("levenshtein") =>
        /\ calc.distance = EditDistance(calc.a, calc.b)
        /\ calc.distance = levenshteinDistance(calc.b, calc.a)
        /\ (calc.distance = 0) <=> (calc.a = calc.b)
        /\ calc.a = <<>> => calc.distance = Len(calc.b)
        /\ calc.b = <<>> => calc.distance = Len(calc.a)
        /\ (calc.a = Color /\ calc.b = Colour) => calc.distance = 1

\* Two words of one length at distance 2, which a substitution and nothing
\* cheaper than two edits joins: "ab" and "ba".
C25_Witness ==
    /\ Done("levenshtein")
    /\ calc.a = <<"a","b">>
    /\ calc.b = <<"b","a">>
    /\ calc.distance = 2

\* C26: a search that follows a search with the same collection id, query
\* and limit, no other call between them, returns the list the first
\* returned: the same chunks with the same scores in the same order.
C26_RepeatedSearchSame ==
    [][(/\ IsSearch(last) /\ IsSearch(last')
        /\ last'.pid = last.pid
        /\ last'.query = last.query
        /\ last'.limit = last.limit) => last'.results = last.results]_vars

\* the chunks passed to the indexProject calls that are in force
RECURSIVE IndexedTotal(_)
IndexedTotal(ps) ==
    IF ps = {} THEN 0
    ELSE LET p == CHOOSE q \in ps : TRUE
         IN  (IF indexed[p].set THEN Len(indexed[p].chunks) ELSE 0)
                 + IndexedTotal(ps \ {p})

\* every list in force has pairwise distinct ids
DistinctIdsIndexed ==
    \A p \in Projects :
        indexed[p].set =>
            \A i \in 1..Len(indexed[p].chunks) :
                \A j \in 1..Len(indexed[p].chunks) :
                    indexed[p].chunks[i].id = indexed[p].chunks[j].id => i = j

\* C27: when the lists passed to indexProject hold pairwise distinct ids, no
\* two items of a search result hold a chunk of the same id, and a search
\* that scores its candidates scores as many as there are chunks in the
\* lists in force.
C27_NoDuplicateResults ==
    (IsSearch(last) /\ ~last.raised /\ DistinctIdsIndexed) =>
        /\ \A i \in 1..Len(last.results) : \A j \in 1..Len(last.results) :
              last.results[i].chunk.id = last.results[j].chunk.id => i = j
        /\ ~NoTerms(last) => Len(last.cands) = IndexedTotal(Projects)

\* the position of the n-th line break of the text
BreakAt(text, n) ==
    LET breaks == {i \in 1..Len(text) : text[i] = "\n"}
    IN  CHOOSE p \in breaks : Cardinality({q \in breaks : q <= p}) = n

\* the lines from..to of the text with the line breaks between them
LinesOf(text, from, to, count) ==
    SubSeq(text,
           IF from = 1 THEN 1 ELSE BreakAt(text, from - 1) + 1,
           IF to = count THEN Len(text) ELSE BreakAt(text, to) - 1)

LineBreaks(text) == Cardinality({i \in 1..Len(text) : text[i] = "\n"})

\* C28: the chunks of a markdown document of N lines cover the lines 1..N
\* in order without gap or overlap (the first starts at line 1, each next at
\* the line after the end of the one before, the last ends at line N), the
\* content of a chunk has endLine - startLine + 1 lines and is the text of the
\* lines startLine..endLine of the document, so that the contents joined by
\* line breaks are the document.
C28_MarkdownPartition ==
    IsMarkdownDoc =>
        LET cs == doc.chunks
        IN  /\ Len(cs) >= 1
            /\ cs[1].startLine = 1
            /\ \A k \in 1..(Len(cs) - 1) :
                  cs[k + 1].startLine = cs[k].endLine + 1
            /\ cs[Len(cs)].endLine = LineCount
            /\ \A k \in 1..Len(cs) :
                  LineBreaks(cs[k].content) + 1
                      = cs[k].endLine - cs[k].startLine + 1
            /\ \A k \in 1..Len(cs) :
                  cs[k].content = LinesOf(doc.content, cs[k].startLine,
                                          cs[k].endLine, LineCount)

\* "a\n# a\n## a\na": three chunks, the last of two lines.
C28_Witness ==
    /\ IsMarkdownDoc
    /\ LineCount = 4
    /\ Len(doc.chunks) = 3
    /\ doc.chunks[1].endLine = 1
    /\ doc.chunks[2].startLine = 2
    /\ doc.chunks[3].startLine = 3
    /\ doc.chunks[3].endLine = 4
    /\ LineBreaks(doc.chunks[3].content) = 1

\* the chunkDocument outputs of the fetched files, in the order of fetching
RECURSIVE Gathered(_, _)
Gathered(project, fetched) ==
    IF Len(fetched) = 0 THEN <<>>
    ELSE chunkDocument(project, Head(fetched).path, Head(fetched).content)
             \o Gathered(project, Tail(fetched))

Finishes(c) == crawl[c].pc # "done" /\ crawl'[c].pc = "done"

\* A step of a crawlProject invocation other than its last leaves the index
\* as it is; its last step stores, under the project of the invocation, the
\* chunks of the files this invocation has fetched, and leaves the other
\* entries as they are.
C29_StoresOwnChunks ==
    \A c \in Invocations :
        crawl'[c] # crawl[c] =>
            IF Finishes(c)
            THEN /\ Has(index', crawl[c].project)
                 /\ Get(index', crawl[c].project)
                       = ListVal(Gathered(crawl[c].project,
                                          crawl'[c].fetched))
                 /\ \A q \in Projects \ {crawl[c].project} :
                       /\ Has(index', q) = Has(index, q)
                       /\ Has(index, q) => Get(index', q) = Get(index, q)
            ELSE index' = index

\* Every candidate of a search is a chunk that a finished invocation has
\* gathered for the chunk's project, and all chunks of that invocation are
\* candidates with it.
C29_SearchSeesWhole ==
    (IsSearch(last) /\ ~last.raised) =>
        \A i \in 1..Len(last.cands) :
            \E c \in Invocations :
                /\ crawl[c].pc = "done"
                /\ crawl[c].project = last.cands[i].projectId
                /\ LET g == Gathered(crawl[c].project, crawl[c].fetched)
                   IN  /\ last.cands[i] \in Range(g)
                       /\ Range(g) \subseteq Range(last.cands)

\* C29: the list an indexProject call of a crawl stores is the chunks that
\* one crawlProject invocation has gathered, whatever the other invocation
\* does between its steps; no search has a candidate of an invocation that
\* has not finished, or part of the chunks of one that has; an invocation
\* that fails leaves the index as it is.
C29_CrawlReplacesAtomically ==
    []C29_SearchSeesWhole /\ [][C29_StoresOwnChunks]_vars

\* A search between the steps of an invocation that has gathered chunks for
\* project A and waits: the candidates are the chunks of the other, finished
\* invocation for A, which are not those gathered so far.
C29_Witness ==
    /\ IsSearch(last)
    /\ last.cands # <<>>
    /\ \E c \in Invocations :
          /\ crawl[c].pc = "sleep"
          /\ crawl[c].project = "A"
          /\ crawl[c].chunks # <<>>
          /\ \E i \in 1..Len(crawl[c].chunks) :
                crawl[c].chunks[i] \notin Range(last.cands)
          /\ \A i \in 1..Len(last.cands) : last.cands[i].projectId = "A"

\* the path ends in .md or .markdown, in any case of the letters
HasMarkdownExtension(path) ==
    \E ext \in { <<".","m","d">>, <<".","m","a","r","k","d","o","w","n">> } :
        /\ Len(path) >= Len(ext)
        /\ ToLower(SubSeq(path, Len(path) - Len(ext) + 1, Len(path))) = ext

\* the directories of the path: its components but the last
Directories(path) ==
    LET parts == Split(path, "/")
    IN  {parts[k] : k \in 1..(Len(parts) - 1)}

OutsideExcluded(path) ==
    Directories(path) \cap
        { <<"n","o","d","e","_","m","o","d","u","l","e","s">>,
          <<"d","i","s","t">>, <<"b","u","i","l","d">>, <<".","g","i","t">>,
          <<"c","o","v","e","r","a","g","e">> } = {}

\* the contents that arrived for the path in the invocation
ArrivedFor(cr, path) ==
    {f.content : f \in {g \in Range(cr.fetched) \cup Range(cr.readmes) :
                           g.path = path}}

\* The chunkDocument outputs, in tree order from the k-th file on, of the
\* markdown files outside the excluded directories whose content arrived.
RECURSIVE ExpectedFrom(_, _)
ExpectedFrom(cr, k) ==
    IF k > Len(cr.tree) THEN <<>>
    ELSE LET file == cr.tree[k]
             arrived == ArrivedFor(cr, file.path)
         IN  (IF /\ file.type = "blob"
                 /\ HasMarkdownExtension(file.path)
                 /\ OutsideExcluded(file.path)
                 /\ arrived # {}
              THEN chunkDocument(cr.project, file.path,
                                 CHOOSE content \in arrived : TRUE)
              ELSE <<>>) \o ExpectedFrom(cr, k + 1)

\* C30: when crawlProject(p, false) completes, the list it stores for the
\* project holds, in tree order, the chunkDocument output of every file of
\* the tree with the extension .md or .markdown, outside the excluded
\* directories, whose content arrived - the files named README.md too.
C30_IndexesEveryMarkdownFile ==
    [][\A c \in Invocations :
          (Finishes(c) /\ ~crawl[c].metadataOnly) =>
              /\ Has(index', crawl[c].project)
              /\ Get(index', crawl[c].project)
                    = ListVal(ExpectedFrom(crawl'[c], 1))]_vars

=============================================================================
